---------------------------- MODULE Spec2Model ----------------------------
(***************************************************************************)
(* A model of the tool-calling orchestration loop of the agentic rollout   *)
(* library: workers/core/query_orchestrator.py (QueryOrchestrator) and the *)
(* registry it consults, workers/core/enhanced_tool_manager.py             *)
(* (EnhancedToolManager).                                                  *)
(*                                                                         *)
(* A model response is a sequence of lexical tokens.  The regular          *)
(* expression of _extract_tool_calls_from_response and json.loads are      *)
(* computed on that token sequence, so that what the interpreter extracts  *)
(* is decided by the text and not by how the text was put together.        *)
(***************************************************************************)
EXTENDS Naturals, Sequences, FiniteSets, TLC

(***************************************************************************)
(* Bounds of the model.                                                    *)
(***************************************************************************)
\* the number of segments (Action blocks or prose) of a model response
MaxBlocks == 2
\* the number of register_tool calls made before the turn starts
MaxRegs == 2
\* the longest time, in scheduler ticks, a tool's execute stays suspended
MaxTicks == 1
\* the number of times the configured skip flag is changed during a turn
MaxConfigChanges == 1
\* the number of segments of a response in the model of two turns
MaxTwinBlocks == 1
\* the number of edits of the editor tool that are not undone
MaxEdits == 2
\* max_thought_length the think tool is configured with, in characters
max_thought_length == 2
\* the number of thoughts an instance logs between two clear_thoughts
MaxThoughts == 2
\* the number of processes the bash tool starts
MaxProcesses == 2

(***************************************************************************)
(* JSON values, as json.loads produces them.  Every value is a record of   *)
(* the same shape: its Python type, its text (str(value)) and, for an      *)
(* object, its members.                                                    *)
(***************************************************************************)
\* the empty mapping {}
EmptyMap == [x \in {} |-> 0]

JStr(s) == [type |-> "str", s |-> s, m |-> EmptyMap]

\* the JSON array ["x"]: a Python list, which is unhashable
JList == [type |-> "list", s |-> "['x']", m |-> EmptyMap]

JNum == [type |-> "int", s |-> "5", m |-> EmptyMap]

JNull == [type |-> "NoneType", s |-> "None", m |-> EmptyMap]

JObj(members) == [type |-> "dict", s |-> "", m |-> members]

\* the arguments of scenario 1: {"pattern": "*.py"}
PatternArgs == JObj([k \in {"pattern"} |-> JStr("*.py")])

(***************************************************************************)
(* Tokens of a response text.                                              *)
(*   Act  the literal  Action:  (with the white space after it)            *)
(*   LB, RB, Com   {  }  ,                                                 *)
(*   kv   a complete member  "k": v  whose value v is not an object        *)
(*   key  a member key  "k":  whose value, an object, follows              *)
(*   Txt  prose without braces                                             *)
(***************************************************************************)
Tok(t) == [t |-> t, k |-> "", v |-> JNull]

KV(k, v) == [t |-> "kv", k |-> k, v |-> v]

Key(k) == [t |-> "key", k |-> k, v |-> JNull]

Min(S) == CHOOSE x \in S : \A y \in S : x <= y

(***************************************************************************)
(* json.loads on a token sequence: a recursive-descent parser of an        *)
(* object  { member (, member)* }  whose members are kv tokens or a key    *)
(* followed by an object.  A later member with the same key replaces an    *)
(* earlier one, as in Python.                                              *)
(***************************************************************************)
ParseFail == [ok |-> FALSE, val |-> EmptyMap, next |-> 0]

Put(acc, k, v) == [x \in (DOMAIN acc) \cup {k} |-> IF x = k THEN v ELSE acc[x]]

RECURSIVE ParseObject(_, _)
RECURSIVE ParseMembers(_, _, _)

AfterMember(toks, p, acc) ==
    IF p > Len(toks) THEN ParseFail
    ELSE IF toks[p].t = "RB" THEN [ok |-> TRUE, val |-> acc, next |-> p + 1]
    ELSE IF toks[p].t = "Com" THEN ParseMembers(toks, p + 1, acc)
    ELSE ParseFail

ParseMembers(toks, p, acc) ==
    IF p > Len(toks) THEN ParseFail
    ELSE IF toks[p].t = "kv"
         THEN AfterMember(toks, p + 1, Put(acc, toks[p].k, toks[p].v))
    ELSE IF toks[p].t = "key"
         THEN LET r == ParseObject(toks, p + 1)
              IN  IF r.ok
                  THEN AfterMember(toks, r.next, Put(acc, toks[p].k, JObj(r.val)))
                  ELSE ParseFail
    ELSE ParseFail

ParseObject(toks, p) ==
    IF p > Len(toks) \/ toks[p].t # "LB" THEN ParseFail
    ELSE IF p + 1 <= Len(toks) /\ toks[p + 1].t = "RB"
         THEN [ok |-> TRUE, val |-> EmptyMap, next |-> p + 2]
    ELSE ParseMembers(toks, p + 1, EmptyMap)

\* json.loads(json_str): the whole string has to be one JSON value; ok is
\* FALSE where Python raises json.JSONDecodeError
JsonLoads(toks) ==
    LET r == ParseObject(toks, 1)
    IN  IF r.ok /\ r.next = Len(toks) + 1 THEN r ELSE ParseFail

(***************************************************************************)
(* re.findall(r'Action:\s*\{[^}]*\}', response, re.DOTALL): the            *)
(* non-overlapping matches, left to right.  A match starts at an Act token *)
(* directly followed by LB and runs to the FIRST RB after it, whatever     *)
(* lies between ([^}]* also takes '{' and 'Action:').                      *)
(***************************************************************************)
RECURSIVE FindAllFrom(_, _)
FindAllFrom(text, p) ==
    IF p > Len(text) THEN << >>
    ELSE LET closers == {q \in (p + 2)..Len(text) : text[q].t = "RB"}
         IN  IF /\ text[p].t = "Act"
                /\ p + 1 <= Len(text)
                /\ text[p + 1].t = "LB"
                /\ closers # {}
             THEN <<SubSeq(text, p, Min(closers))>>
                      \o FindAllFrom(text, Min(closers) + 1)
             ELSE FindAllFrom(text, p + 1)

ActionPattern(response) == FindAllFrom(response, 1)

(***************************************************************************)
(* QueryOrchestrator._extract_tool_calls_from_response.  Every regex match *)
(* is cut at its first '{' and handed to json.loads; a match that does not *)
(* parse is skipped (json.JSONDecodeError), one that parses and has a      *)
(* "name" key becomes a tool call whose id is built from the index of the  *)
(* MATCH (enumerate(action_matches)).                                      *)
(***************************************************************************)
\* f"call_{i}"
CallId(i) == "call_" \o ToString(i)

\* action_match[action_match.find('{'):]
JsonPart(action_match) ==
    LET json_start == Min({q \in 1..Len(action_match) : action_match[q].t = "LB"})
    IN  SubSeq(action_match, json_start, Len(action_match))

NoneCalls == [some |-> FALSE, calls |-> << >>]

SomeCalls(calls) == [some |-> TRUE, calls |-> calls]

RECURSIVE ExtractLoop(_, _)
ExtractLoop(action_matches, i) ==
    IF i >= Len(action_matches) THEN << >>
    ELSE LET r == JsonLoads(JsonPart(action_matches[i + 1]))
             action_data == r.val
             tool_call == [id        |-> CallId(i),
                           name      |-> action_data["name"],
                           arguments |-> IF "parameters" \in DOMAIN action_data
                                         THEN action_data["parameters"]
                                         ELSE JObj(EmptyMap)]
         IN  (IF r.ok /\ "name" \in DOMAIN action_data
              THEN <<tool_call>> ELSE << >>)
                 \o ExtractLoop(action_matches, i + 1)

\* the list handed on as it is, empty or not
KeepEmptyList(tcs) == tcs

\* the Python expression  tool_calls if tool_calls else None
OrNone(tcs) == IF tcs.some /\ tcs.calls # << >> THEN tcs ELSE NoneCalls

\* returns the list, or None when it is empty
ExtractToolCalls(response) ==
    OrNone(SomeCalls(ExtractLoop(ActionPattern(response), 0)))

\* Message(role, content, tool_calls=None, tool_call_id=None, name=None)
Message(role, content, tcs, tool_call_id, name) ==
    [role |-> role, content |-> content, tool_calls |-> tcs,
     tool_call_id |-> tool_call_id, name |-> name]

\* a parser that keeps the tool calls and drops the text
ParseLlmResponseNoText(response) ==
    Message("assistant", << >>, OrNone(ExtractToolCalls(response)), "", JNull)

\* _parse_llm_response
ParseLlmResponse(response) ==
    Message("assistant", response, OrNone(ExtractToolCalls(response)), "", JNull)

\* _normalize_messages_for_api: a new list of new dicts, one for every
\* Message, with role and content and with tool_calls, tool_call_id and name
\* where they are set (truthy); the Messages are only read
NormalizeMessagesForApi(msgs) ==
    [i \in DOMAIN msgs |->
        LET message == msgs[i]
            keys == {"role", "content"}
                        \cup (IF message.tool_calls.some /\ message.tool_calls.calls # << >>
                              THEN {"tool_calls"} ELSE {})
                        \cup (IF message.tool_call_id # "" THEN {"tool_call_id"} ELSE {})
                        \cup (IF message.name.type = "str" /\ message.name.s # ""
                              THEN {"name"} ELSE {})
        IN  [key \in keys |-> message[key]]]

(***************************************************************************)
(* The responses the model is let to produce: up to MaxBlocks segments.    *)
(* A segment is prose or one Action block of a given shape.                *)
(*   flat      Action: {"name": n}                                         *)
(*   nested    Action: {"name": n, "parameters": {"pattern": "*.py"}}      *)
(*   scalar    Action: {"name": n, "parameters": 5}                        *)
(*   trailing  Action: {"name": n,}            (not JSON)                  *)
(*   noname    Action: {"tool": n}             (JSON without a name)       *)
(*   unclosed  Action: {"name": n              (no closing brace)          *)
(*   prose     text                                                        *)
(***************************************************************************)
RegNames == {"search_files", "write_file"}

\* the values a block gives as its name: a registrable name, a name nobody
\* registers, and a JSON array
BlockNames == {JStr(n) : n \in RegNames} \cup {JStr("ghost_tool"), JList}

Seg(shape, n) == [shape |-> shape, name |-> n]

Segments ==
    {Seg("flat", n) : n \in BlockNames}
        \cup {Seg(sh, JStr("search_files")) :
                 sh \in {"nested", "scalar", "trailing", "noname", "unclosed", "prose"}}

SegText(sg) ==
    CASE sg.shape = "flat" ->
            <<Tok("Act"), Tok("LB"), KV("name", sg.name), Tok("RB")>>
      [] sg.shape = "nested" ->
            <<Tok("Act"), Tok("LB"), KV("name", sg.name), Tok("Com"),
              Key("parameters"), Tok("LB"), KV("pattern", JStr("*.py")),
              Tok("RB"), Tok("RB")>>
      [] sg.shape = "scalar" ->
            <<Tok("Act"), Tok("LB"), KV("name", sg.name), Tok("Com"),
              KV("parameters", JNum), Tok("RB")>>
      [] sg.shape = "trailing" ->
            <<Tok("Act"), Tok("LB"), KV("name", sg.name), Tok("Com"), Tok("RB")>>
      [] sg.shape = "noname" ->
            <<Tok("Act"), Tok("LB"), KV("tool", sg.name), Tok("RB")>>
      [] sg.shape = "unclosed" ->
            <<Tok("Act"), Tok("LB"), KV("name", sg.name)>>
      [] OTHER -> <<Tok("Txt")>>

RECURSIVE Text(_)
Text(segs) == IF segs = << >> THEN << >> ELSE SegText(Head(segs)) \o Text(Tail(segs))

SegSeqs(n) == UNION {[1..k -> Segments] : k \in 0..n}

Responses == {Text(segs) : segs \in SegSeqs(MaxBlocks)}

\* the conversations a caller hands to a turn: a first question, and a
\* question followed by the Messages of an earlier turn
Conversations ==
    LET question == Message("user", "find the python files", NoneCalls, "", JNull)
        answer == ParseLlmResponse(Text(<<Seg("flat", JStr("search_files"))>>))
        output == Message("tool", "output of search_files", NoneCalls,
                          answer.tool_calls.calls[1].id, answer.tool_calls.calls[1].name)
    IN  {<<question>>, <<question, answer, output>>}

(***************************************************************************)
(* State.                                                                  *)
(***************************************************************************)
VARIABLES
    \* EnhancedToolManager
    all_tools,          \* _all_tools: every instance ever registered, in order
    tool_registry,      \* _tool_registry: name -> instance
    read_only_tools,    \* _read_only_tools: set of names
    dangerous_tools,    \* _dangerous_tools: set of names
    \* ConfigManager.should_skip_permissions()
    config_skip,
    \* ConfigManager.get_project_config(): the ProjectConfig of the working
    \* directory (allowed_tools, enable_architect_tool), and with it the
    \* allowed argument of the latest set_tool_permission call per tool name
    project_config,
    \* one call of QueryOrchestrator.query_with_tools
    messages,           \* the messages argument: the conversation of the caller
    api_messages,       \* the messages handed to generate after the system prompt
    pc,                 \* where the generator stands
    can_use_tool,       \* the approval callback argument (or None)
    tool_use_context,   \* the ToolUseContext of the turn
    tool_calls,         \* assistant_response.tool_calls handed to the tool phase
    pos,                \* position of the for loop of _handle_tool_calls
    running_tool,       \* the tool whose execute is awaited (the loop's local)
    elapsed,            \* ticks the running execute has been suspended
    model_calls,        \* number of llm_client.generate calls issued
    tool_schemas,       \* the descriptors handed to generate
    blocks,             \* the segments the model's response was written as
    yielded,            \* the Messages the generator has yielded, in order
    events,             \* what the loop did, in order
    \* two calls of query_with_tools under way at once
    turns,              \* turn id -> the locals of that generator
    \* OHStrReplaceEditorTool, one instance id and one path
    editor,             \* the file at the path, file_history, the last result
    \* OHThinkTool, OHFinishTool, OHBashTool: what they keep per instance id
    think,              \* thoughts_history and the last result
    finish,             \* completions and the last result
    bash                \* sessions, the processes started, the last result

registry_vars == <<all_tools, tool_registry, read_only_tools, dangerous_tools>>

turn_vars == <<messages, api_messages, pc, can_use_tool, tool_use_context, tool_calls, pos,
               running_tool, elapsed, model_calls, tool_schemas, blocks, yielded,
               events>>

instance_vars == <<think, finish, bash>>

vars == <<all_tools, tool_registry, read_only_tools, dangerous_tools,
          config_skip, project_config, messages, api_messages, pc, can_use_tool,
          tool_use_context, tool_calls, pos, running_tool, elapsed, model_calls,
          tool_schemas, blocks, yielded, events, turns, editor, think, finish,
          bash>>

(***************************************************************************)
(* ConfigManager: the tool permissions of the project.                     *)
(***************************************************************************)
\* the default table of get_tool_permissions
DefaultPermissions ==
    [name \in {"cc_file_read", "cc_ls", "cc_glob", "cc_grep", "cc_nb_read",
               "cc_memory_read", "cc_think", "cc_file_write", "cc_file_edit",
               "cc_bash", "cc_nb_edit", "cc_memory_write", "cc_agent",
               "cc_architect", "cc_mcp", "cc_sticker"} |->
        CASE name \in {"cc_file_read", "cc_ls", "cc_glob", "cc_grep",
                       "cc_nb_read", "cc_memory_read", "cc_think"} -> TRUE
          [] name \in {"cc_file_write", "cc_file_edit", "cc_bash",
                       "cc_nb_edit", "cc_memory_write"} -> FALSE
          [] name = "cc_agent" -> TRUE
          [] name = "cc_architect" -> project_config.enable_architect_tool
          [] name = "cc_mcp" -> FALSE
          [] name = "cc_sticker" -> TRUE]

\* get_tool_permissions: a non-empty allowed_tools is the whole answer, every
\* name of it mapped to True; the default table is returned only while
\* allowed_tools is empty
GetToolPermissions ==
    IF project_config.allowed_tools # << >>
    THEN [name \in {project_config.allowed_tools[i] :
                        i \in DOMAIN project_config.allowed_tools} |-> TRUE]
    ELSE DefaultPermissions

\* set_tool_permission(tool_name, allowed): append the name when it is not
\* in allowed_tools, or list.remove it when it is; save_project_config then
\* writes the file and clears the cache, so the next get_project_config
\* reads the same allowed_tools back
SetToolPermission ==
    \E tool_name \in {"cc_file_read", "cc_bash", "my_tool"}, allowed \in BOOLEAN :
        LET allowed_tools == project_config.allowed_tools
            present == \E i \in DOMAIN allowed_tools : allowed_tools[i] = tool_name
        IN  /\ project_config' =
                  [project_config EXCEPT
                      !.allowed_tools =
                          IF allowed
                          THEN IF present THEN allowed_tools
                               ELSE Append(allowed_tools, tool_name)
                          ELSE IF ~present THEN allowed_tools
                               ELSE LET first == CHOOSE i \in DOMAIN allowed_tools :
                                                 /\ allowed_tools[i] = tool_name
                                                 /\ \A j \in 1..(i - 1) :
                                                        allowed_tools[j] # tool_name
                                    IN  SubSeq(allowed_tools, 1, first - 1)
                                            \o SubSeq(allowed_tools, first + 1,
                                                      Len(allowed_tools)),
                      !.requested = Put(project_config.requested, tool_name, allowed)]
            /\ UNCHANGED <<registry_vars, config_skip, turn_vars, turns, editor,
                           instance_vars>>

(***************************************************************************)
(* EnhancedToolManager.                                                    *)
(***************************************************************************)
\* a tool instance: its name attribute, its identity as an object and what
\* its is_enabled method does: "yes" returns True, "no" returns False,
\* "raises" raises an Exception
\* and what its description methods do.  get_detailed_prompt is "missing",
\* "raises", "returns" or "no_context" (it takes no context argument: the
\* call with context raises TypeError, the call without returns);
\* get_openai_tool_schema is "missing", "raises", "returns" (it returns an
\* OpenAIFunctionToolSchema, as its annotation says), "returns_dict" (it
\* returns a plain dict) or "no_description" (a dict without a description)
ToolWith(name, id, enabled) ==
    [name |-> name, id |-> id, enabled |-> enabled,
     class_name |-> IF name = "search_files" THEN "SearchFilesTool" ELSE "WriteFileTool",
     prompt |-> "returns", schema |-> "returns"]

EnabledValues == {"yes", "no", "raises"}

\* a tool that takes its is_enabled from PromptMixin, which returns True
Tool(name, id) == ToolWith(name, id, "yes")

\* get_tools_with_permissions, the is_enabled check: a tool whose is_enabled
\* returns False or raises is left out
IsEnabled(tool) == tool.enabled = "yes"

\* register_tool(tool, is_read_only, is_dangerous), called while the turn is
\* at that place
RegisterToolAt(tool, is_read_only, is_dangerous, places) ==
    /\ pc \in places
    /\ Len(all_tools) < MaxRegs
    /\ all_tools' = Append(all_tools, tool)
    /\ tool_registry' = Put(tool_registry, tool.name, tool)
    /\ read_only_tools' = IF is_read_only THEN read_only_tools \cup {tool.name}
                          ELSE read_only_tools
    /\ dangerous_tools' = IF is_dangerous THEN dangerous_tools \cup {tool.name}
                          ELSE dangerous_tools
    /\ UNCHANGED <<instance_vars, editor, turns, config_skip, project_config, turn_vars>>

\* register_tool(tool, is_read_only, is_dangerous) at startup
RegisterTool(tool, is_read_only, is_dangerous) ==
    RegisterToolAt(tool, is_read_only, is_dangerous, {"startup"})

\* the flags the application registers a tool with
\* (register_cc_tools_to_manager takes them from two tables of names)
CatalogueReadOnly == {"search_files"}

CatalogueDangerous == {"write_file"}

\* get_all_tools
GetAllTools == all_tools

\* a filter that lets every read-only tool through
GetToolsReadOnlyPass(dangerous_skip_permissions) ==
    SelectSeq(all_tools,
              LAMBDA tool : /\ IsEnabled(tool)
                            /\ \/ tool.name \in read_only_tools
                               \/ ~(tool.name \in dangerous_tools
                                    /\ ~dangerous_skip_permissions))

\* get_tools_with_permissions(dangerous_skip_permissions)
GetToolsWithPermissions(dangerous_skip_permissions) ==
    SelectSeq(all_tools,
              LAMBDA tool : /\ IsEnabled(tool)
                            /\ ~(tool.name \in dangerous_tools
                                 /\ ~dangerous_skip_permissions))

\* what get_openai_tool_schema returns.  An OpenAIFunctionToolSchema is an
\* object read by attribute (schema.function.description); it is no mapping
\* and has no get method.
OpenAIFunctionToolSchema(tool) ==
    [mapping |-> tool.schema # "returns",
     described |-> tool.schema # "no_description",
     description |-> "description of " \o tool.name,
     parameters |-> "parameters of " \o tool.name]

\* hasattr(tool, 'get_openai_tool_schema') and the call does not raise
SchemaReturned(tool) == tool.schema \in {"returns", "returns_dict", "no_description"}

\* _get_tool_detailed_description: schema.get('function', {}) raises
\* AttributeError on an object that is no mapping, which the except takes
GetToolDetailedDescription(tool) ==
    IF tool.prompt \in {"returns", "no_context"} THEN "prompt of " \o tool.name
    ELSE IF /\ SchemaReturned(tool)
            /\ OpenAIFunctionToolSchema(tool).mapping
            /\ OpenAIFunctionToolSchema(tool).described
         THEN OpenAIFunctionToolSchema(tool).description
    ELSE "Tool: " \o tool.class_name

\* generate_openai_function_schemas(tools): one schema for every tool, with
\* the parameters of _get_tool_parameters_schema
GenerateOpenaiFunctionSchemas(tools) ==
    [i \in DOMAIN tools |->
        [type |-> "function",
         function |-> [name |-> tools[i].name,
                       description |-> GetToolDetailedDescription(tools[i]),
                       parameters |->
                           IF /\ SchemaReturned(tools[i])
                              /\ OpenAIFunctionToolSchema(tools[i]).mapping
                           THEN OpenAIFunctionToolSchema(tools[i]).parameters
                           ELSE "{}"]]]

\* find_tool_by_name: self._tool_registry.get(tool_name).  A list is
\* unhashable: dict.get raises TypeError.
FindRaises(tool_name) == tool_name.type \in {"list", "dict"}

\* a lookup that only finds the tools that are enabled
FindEnabledToolByName(tool_name) ==
    IF /\ tool_name.type = "str"
       /\ tool_name.s \in DOMAIN tool_registry
       /\ IsEnabled(tool_registry[tool_name.s])
    THEN <<tool_registry[tool_name.s]>>
    ELSE << >>

FindToolByName(tool_name) ==
    IF tool_name.type = "str" /\ tool_name.s \in DOMAIN tool_registry
    THEN <<tool_registry[tool_name.s]>>
    ELSE << >>

\* tool_name in self._dangerous_tools / self._read_only_tools: a membership
\* test in a set hashes the name, and raises TypeError for a list or a dict
TagLookupRaises(tool_name) == tool_name.type \in {"list", "dict"}

\* a registry that takes a name it does not know for a dangerous one
IsToolDangerousByDefault(tool_name) ==
    /\ tool_name.type = "str"
    /\ tool_name.s \notin DOMAIN tool_registry \/ tool_name.s \in dangerous_tools

\* is_tool_dangerous
IsToolDangerous(tool_name) ==
    tool_name.type = "str" /\ tool_name.s \in dangerous_tools

\* is_tool_read_only
IsToolReadOnly(tool_name) ==
    tool_name.type = "str" /\ tool_name.s \in read_only_tools

(***************************************************************************)
(* QueryOrchestrator: the texts of the Messages the loop makes up itself.  *)
(***************************************************************************)
\* str(e) of the exception a failing collaborator raises
ContextErrorText == "context provider failed"

ModelErrorText == "LLM request timed out"

UnhashableText == "unhashable type: 'list'"

\* what the tools of the model return and raise
ToolOutput(tool) == "output of " \o tool.name

ToolFailureText(tool) == tool.name \o " could not do it"

ToolExceptionText == "tool crashed"

\* query_with_tools, the except branch
ErrorMessage(text) ==
    Message("assistant",
            "I encountered an error: " \o text
                \o ". Please try again or rephrase your request.",
            NoneCalls, "", JNull)

NoSuchToolContent(tool_name) == "Error: No such tool available: " \o tool_name.s

PermissionDeniedContent(tool_name) ==
    "Error: Permission denied for tool: " \o tool_name.s

DangerousContent(tool_name) ==
    "Error: Dangerous tool " \o tool_name.s \o " requires permission"

ExecutionFailedContent(text) == "Error: Tool execution failed: " \o text

\* tool.execute(**arguments) with arguments that are no mapping: TypeError,
\* raised before execute is entered and caught by _execute_tool (Python
\* puts the qualified name of the method before "execute()")
NotAMappingContent(arguments) ==
    "Error: execute() argument after ** must be a mapping, not " \o arguments.type

(***************************************************************************)
(* _execute_tool: the string made of what execute returned or raised.      *)
(*   success     ToolResult(success=True, content=<output>)                *)
(*   failure     ToolResult(success=False, content=<text>)                 *)
(*   error_only  ToolResult(success=False, error=<text>), content unset    *)
(*   raise       execute raised an Exception                               *)
(*   plain       execute returned something that is no ToolResult          *)
(***************************************************************************)
Outcomes == {"success", "failure", "error_only", "raise", "plain"}

\* ToolResult: {success, content/result, error}; a field left unset is None
ToolResult(success, content, error) ==
    [success |-> success, content |-> content, error |-> error]

\* the ToolResult a tool returns
ResultOf(tool, outcome) ==
    CASE outcome = "success" -> ToolResult(TRUE, ToolOutput(tool), "None")
      [] outcome = "failure" -> ToolResult(FALSE, ToolFailureText(tool), "None")
      [] OTHER               -> ToolResult(FALSE, "None", ToolFailureText(tool))

\* str(result.content) if result.success else f"Error: {result.content}"
FormatResult(result) ==
    IF result.success THEN result.content ELSE "Error: " \o result.content

ExecuteToolResult(tool, outcome) ==
    CASE outcome \in {"success", "failure", "error_only"} ->
            FormatResult(ResultOf(tool, outcome))
      [] outcome = "raise" -> "Error: " \o ToolExceptionText
      [] OTHER             -> ToolOutput(tool)

(***************************************************************************)
(* _handle_tool_calls: the conditions of the loop body.                    *)
(***************************************************************************)
\* a loop that takes the calls last to first
CurrentCallReversed(n, p) == n + 1 - p

\* for tool_call in tool_calls: the call taken at the p-th iteration of n
CurrentCall(n, p) == p

\* can_use_tool and not can_use_tool(tool_name, tool_arguments)
Denied(present, answer) == present /\ ~answer

\* a gate that was left out
DangerousNeverBlocked(dangerous, skip) == FALSE

\* a gate that reads the flag the wrong way round
DangerousBlockedInverted(dangerous, skip) == dangerous /\ skip

\* is_tool_dangerous(tool_name) and not dangerous_skip_permissions
DangerousBlocked(dangerous, skip) == dangerous /\ ~skip

\* the dangerous gate put before the approval callback
DecideDangerousFirst(raises, found, denied, blocked, mapping) ==
    IF raises THEN "lookup_raised"
    ELSE IF ~found THEN "no_such_tool"
    ELSE IF blocked THEN "dangerous"
    ELSE IF denied THEN "denied"
    ELSE IF ~mapping THEN "not_a_mapping"
    ELSE "execute"

\* the order of the checks of the loop body: what the body does with a call
Decide(raises, found, denied, blocked, mapping) ==
    IF raises THEN "lookup_raised"
    ELSE IF ~found THEN "no_such_tool"
    ELSE IF denied THEN "denied"
    ELSE IF blocked THEN "dangerous"
    ELSE IF ~mapping THEN "not_a_mapping"
    ELSE "execute"

\* a try/except around the whole loop: the first failed call ends it
NextPcStopOnFailure(n, p, failed) == IF failed \/ p + 1 > n THEN "done" ELSE "tools"

\* the try/except is inside the for: whatever a call came to, the loop goes
\* on with the next call, and ends after the last
NextPc(n, p, failed) == IF p + 1 > n THEN "done" ELSE "tools"

\* a gate that asks the configuration at every call
GateSkipLive(context, configured) == configured

\* tool_use_context.dangerous_skip_permissions: the flag the dangerous gate
\* reads, given the context of the turn and what is configured right now
GateSkipPermissions(context, configured) == context.dangerous_skip_permissions

\* what the loop body does with a tool call if it takes it now, for a turn
\* with that callback and that context, when the approval callback, if it is
\* asked, gives that answer
DecisionFor(tool_call, callback, context, answer) ==
    Decide(FindRaises(tool_call.name),
           FindToolByName(tool_call.name) # << >>,
           Denied(callback.present, answer),
           DangerousBlocked(IsToolDangerous(tool_call.name),
                            GateSkipPermissions(context, config_skip)),
           tool_call.arguments.type = "dict")

\* the same for the k-th tool call of the turn
GateDecision(k, answer) ==
    DecisionFor(tool_calls[k], can_use_tool, tool_use_context, answer)

\* the content of the tool Message of a call that does not reach execute
GateContent(decision, tool_call) ==
    CASE decision = "lookup_raised" -> ExecutionFailedContent(UnhashableText)
      [] decision = "no_such_tool" -> NoSuchToolContent(tool_call.name)
      [] decision = "denied" -> PermissionDeniedContent(tool_call.name)
      [] decision = "dangerous" -> DangerousContent(tool_call.name)
      [] OTHER -> NotAMappingContent(tool_call.arguments)

Event(ev, call, n) == [ev |-> ev, call |-> call, n |-> n]

\* a tool Message that leaves out the id of the call it answers
ToolMessageWithoutId(content, tool_call) ==
    Message("tool", content, NoneCalls, "", tool_call.name)

\* a loop without a try of its own: what the lookup raises reaches the
\* except branch of query_with_tools, which yields the error Message
ToolMessageOuterExcept(content, tool_call) ==
    IF content = ExecutionFailedContent(UnhashableText)
    THEN ErrorMessage(UnhashableText)
    ELSE Message("tool", content, NoneCalls, tool_call.id, tool_call.name)

ToolMessage(content, tool_call) ==
    Message("tool", content, NoneCalls, tool_call.id, tool_call.name)

NoCallback == [present |-> FALSE]

NoContext == [tools |-> << >>, dangerous_skip_permissions |-> FALSE]

(***************************************************************************)
(* OHStrReplaceEditorTool.  The content of a file is a sequence of         *)
(* characters, of which CR and LF are the carriage return and the line     *)
(* feed.  The tool opens files in text mode: reading translates CR LF and  *)
(* a lone CR to LF (universal newlines), writing on POSIX writes the text  *)
(* as it is.                                                               *)
(***************************************************************************)
\* what is at the path: Path(path).exists(), Path(path).parent.exists() and
\* the bytes of the file
NoFile == [exists |-> FALSE, parent |-> TRUE, data |-> << >>]

\* the directory the path lies in does not exist
NoParent == [exists |-> FALSE, parent |-> FALSE, data |-> << >>]

FileOf(data) == [exists |-> TRUE, parent |-> TRUE, data |-> data]

\* the parameters of a call of execute_tool that the commands read
NoArgs == [file_text |-> << >>, old_str |-> << >>, new_str |-> << >>, insert_line |-> 0]

\* the instance ids the tools are called with
InstanceIds == {"i1", "i2"}

\* self.file_history = {} and nothing run yet.  before holds, for every
\* instance, what the file was before each of its successful edits that was
\* not undone, edited the instances that made a successful edit; the last
\* field is the result of the last command: who called it with what, the
\* ToolResult's success, and for an undo_edit whether an edit was there to
\* undo and what the file was before that edit
NewEditor(file) ==
    [file |-> file, file_history |-> EmptyMap,
     before |-> [i \in InstanceIds |-> << >>], edited |-> {},
     last |-> [command |-> "none", instance_id |-> "", args |-> NoArgs,
               success |-> FALSE, owed |-> FALSE, expected |-> NoFile]]

\* open(path, 'r', encoding='utf-8').read()
RECURSIVE TextRead(_)
TextRead(data) ==
    IF data = << >> THEN << >>
    ELSE IF Head(data) = "CR"
         THEN <<"LF">> \o TextRead(IF Len(data) >= 2 /\ data[2] = "LF"
                                   THEN SubSeq(data, 3, Len(data))
                                   ELSE Tail(data))
    ELSE <<Head(data)>> \o TextRead(Tail(data))

\* open(path, 'w', encoding='utf-8').write(text): os.linesep is "\n"
TextWrite(text) == text

\* the text can be encoded as utf-8: it holds no lone surrogate (SUR), which
\* a str can hold and json.loads makes of an escape like \ud800.  The write
\* of a text that cannot be encoded raises UnicodeEncodeError after open()
\* has truncated the file.
Encodable(text) == \A q \in DOMAIN text : text[q] # "SUR"

\* the start positions of the non-overlapping occurrences of old_str that
\* str.count and str.replace find, leftmost first, from position p on
RECURSIVE Occurrences(_, _, _)
Occurrences(content, old_str, p) ==
    IF p + Len(old_str) - 1 > Len(content) THEN {}
    ELSE IF SubSeq(content, p, p + Len(old_str) - 1) = old_str
         THEN {p} \cup Occurrences(content, old_str, p + Len(old_str))
    ELSE Occurrences(content, old_str, p + 1)

\* content.replace(old_str, new_str) for an old_str that occurs once
Replace(content, old_str, new_str) ==
    LET p == CHOOSE q \in Occurrences(content, old_str, 1) : TRUE
    IN  SubSeq(content, 1, p - 1) \o new_str
            \o SubSeq(content, p + Len(old_str), Len(content))

\* the positions at which the lines of readlines() end
LineEnds(text) ==
    {q \in DOMAIN text : text[q] = "LF"}
        \cup (IF text # << >> /\ text[Len(text)] # "LF" THEN {Len(text)} ELSE {})

\* the end of the first insert_line lines: what writelines has written when
\* it comes to the inserted line
InsertPoint(text, insert_line) ==
    IF insert_line = 0 THEN 0
    ELSE CHOOSE q \in LineEnds(text) :
             Cardinality({r \in LineEnds(text) : r <= q}) = insert_line

\* lines.insert(insert_line, new_str) and ''.join(lines)
InsertAt(text, insert_line, new_str) ==
    LET at == InsertPoint(text, insert_line)
    IN  SubSeq(text, 1, at) \o new_str \o SubSeq(text, at + 1, Len(text))

Path == "/workspace/f.txt"

\* self.file_history[instance_id][path], empty also when there is no entry
History(instance_id) ==
    IF /\ instance_id \in DOMAIN editor.file_history
       /\ Path \in DOMAIN editor.file_history[instance_id]
    THEN editor.file_history[instance_id][Path]
    ELSE << >>

\* execute_tool, lines 168-169: the instance gets an empty dictionary at its
\* first call, whatever the command comes to
Touched(instance_id) ==
    IF instance_id \in DOMAIN editor.file_history THEN editor.file_history
    ELSE Put(editor.file_history, instance_id, EmptyMap)

\* file_history with those entries for the path of the instance
Recorded(instance_id, entries) ==
    Put(editor.file_history, instance_id,
        Put(Touched(instance_id)[instance_id], Path, entries))

\* a command that returns ToolResult(success=False, ...) before it has
\* changed anything
Fails(instance_id, command, args) ==
    editor' = [editor EXCEPT
        !.file_history = Touched(instance_id),
        !.last = [command |-> command, instance_id |-> instance_id, args |-> args,
                  success |-> FALSE,
                  owed |-> editor.before[instance_id] # << >>,
                  expected |-> NoFile]]

\* a str_replace or an insert whose write raises: the entry is in the
\* history already, the file holds what was written before the exception,
\* the except branch returns ToolResult(success=False, ...)
WriteFails(instance_id, command, args, old_content, written) ==
    editor' = [editor EXCEPT
        !.file_history =
            Recorded(instance_id,
                     Append(History(instance_id), [operation |-> command,
                                                   old_content |-> old_content])),
        !.file = FileOf(written),
        !.last = [command |-> command, instance_id |-> instance_id, args |-> args,
                  success |-> FALSE,
                  owed |-> editor.before[instance_id] # << >>,
                  expected |-> NoFile]]

\* an edit that succeeds: the entry is appended to the history of the path,
\* the file is written, ToolResult(success=True, ...) is returned
Edits(instance_id, command, args, old_content, data) ==
    editor' = [editor EXCEPT
        !.file_history =
            Recorded(instance_id,
                     Append(History(instance_id), [operation |-> command,
                                                   old_content |-> old_content])),
        !.file = FileOf(TextWrite(data)),
        !.before[instance_id] = Append(@, editor.file),
        !.edited = @ \cup {instance_id},
        !.last = [command |-> command, instance_id |-> instance_id, args |-> args,
                  success |-> TRUE, owed |-> FALSE, expected |-> NoFile]]

(***************************************************************************)
(* OHThinkTool, OHFinishTool and OHBashTool keep a dictionary keyed by the *)
(* instance id.  A thought is a sequence of characters.                    *)
(***************************************************************************)

\* a cut that does not say that it cut
TruncateBare(thought) ==
    IF Len(thought) > max_thought_length
    THEN SubSeq(thought, 1, max_thought_length)
    ELSE thought

\* thought[:self.max_thought_length] + "... (truncated)" for a long thought
Truncate(thought) ==
    IF Len(thought) > max_thought_length
    THEN SubSeq(thought, 1, max_thought_length) \o <<"... (truncated)">>
    ELSE thought

\* get_thoughts_for_instance: self.thoughts_history.get(instance_id, [])
GetThoughtsForInstance(instance_id) ==
    IF instance_id \in DOMAIN think.thoughts_history
    THEN think.thoughts_history[instance_id]
    ELSE << >>

(***************************************************************************)
(* The locals of one generator of query_with_tools, for the model of two   *)
(* turns under way at once.  log holds, for every call the loop body has   *)
(* taken, what the approval callback answered and how execute ended.       *)
(***************************************************************************)
TurnIds == {1, 2}

NewTurn ==
    [pc |-> "startup", can_use_tool |-> NoCallback, tool_use_context |-> NoContext,
     api_messages |-> << >>, blocks |-> << >>, tool_calls |-> << >>, pos |-> 0, yielded |-> << >>,
     log |-> << >>]

(***************************************************************************)
(* Init: the orchestrator and an empty registry have been constructed.     *)
(***************************************************************************)
TurnInit ==
    /\ turns = [t \in TurnIds |-> NewTurn]
    /\ all_tools = << >>
    /\ tool_registry = EmptyMap
    /\ read_only_tools = {}
    /\ dangerous_tools = {}
    /\ config_skip \in BOOLEAN
    /\ project_config = [allowed_tools |-> << >>,
                         enable_architect_tool |-> FALSE,
                         requested |-> EmptyMap]
    /\ messages \in Conversations
    /\ api_messages = << >>
    /\ pc = "startup"
    /\ can_use_tool = NoCallback
    /\ tool_use_context = NoContext
    /\ tool_calls = << >>
    /\ pos = 0
    /\ running_tool = << >>
    /\ elapsed = 0
    /\ model_calls = 0
    /\ tool_schemas = << >>
    /\ blocks = << >>
    /\ yielded = << >>
    /\ events = << >>
    \* OHThinkTool.__init__: thoughts_history = {}; submitted is the history
    \* of the calls: the thoughts handed in since the last clear_thoughts
    /\ think = [thoughts_history |-> EmptyMap,
                submitted |-> [i \in InstanceIds |-> << >>],
                last |-> [command |-> "none", instance_id |-> "", thought |-> << >>,
                          success |-> FALSE]]
    \* OHFinishTool.__init__: completions = {}
    /\ finish = [completions |-> EmptyMap,
                 last |-> [instance_id |-> "", parameters |-> EmptyMap,
                           success |-> FALSE]]
    \* OHBashTool.__init__: sessions = {}; no process has been started
    /\ bash = [sessions |-> EmptyMap, started |-> 0, alive |-> {},
               last |-> [instance_id |-> "", is_input |-> FALSE, command |-> "",
                         outcome |-> "none", success |-> FALSE]]

Init == TurnInit /\ editor = NewEditor(NoFile)

\* the application registers one of its tools
Register ==
    \E n \in RegNames :
        RegisterTool(Tool(n, Len(all_tools) + 1),
                     n \in CatalogueReadOnly, n \in CatalogueDangerous)

(***************************************************************************)
(* The registry on its own: register_tool called with any tool and any     *)
(* flags, as its signature allows.                                         *)
(***************************************************************************)
RegisterAny ==
    \E n \in RegNames, e \in EnabledValues, ro \in BOOLEAN, dg \in BOOLEAN :
        RegisterTool(ToolWith(n, Len(all_tools) + 1, e), ro, dg)

RegistryNext == RegisterAny

\* a tool is registered whose description methods are missing or raise
RegisterDescribed ==
    \E n \in RegNames, dg \in BOOLEAN,
       prompt \in {"missing", "raises", "returns", "no_context"},
       schema \in {"missing", "raises", "returns", "returns_dict", "no_description"} :
        RegisterTool([ToolWith(n, Len(all_tools) + 1, "yes")
                          EXCEPT !.prompt = prompt, !.schema = schema],
                     FALSE, dg)

RegistrySpec == Init /\ [][RegistryNext]_vars

(***************************************************************************)
(* query_with_tools up to the model call (lines 69-105): the system prompt *)
(* and the context are fetched, the ToolUseContext is taken from the       *)
(* caller or built from the configuration, and generate is called.         *)
(***************************************************************************)
StartTurn ==
    /\ pc = "startup"
    /\ \E present \in BOOLEAN : can_use_tool' = [present |-> present]
    /\ \E given \in BOOLEAN, skip \in BOOLEAN :
          LET context ==
                  IF given
                  THEN [tools |-> GetAllTools, dangerous_skip_permissions |-> skip]
                  ELSE [tools |-> GetToolsWithPermissions(config_skip),
                        dangerous_skip_permissions |-> config_skip]
          IN  /\ tool_use_context' = context
              /\ tool_schemas' = GenerateOpenaiFunctionSchemas(context.tools)
    /\ api_messages' = NormalizeMessagesForApi(messages)
    /\ model_calls' = model_calls + 1
    /\ pc' = "awaiting_model"
    /\ UNCHANGED <<messages, instance_vars, editor, turns, registry_vars, config_skip, project_config, tool_calls, pos, running_tool,
                   elapsed, blocks, yielded, events>>

\* a turn without the except branch: the exception leaves the generator
ContextFailsPropagates ==
    /\ pc = "startup"
    /\ \E present \in BOOLEAN : can_use_tool' = [present |-> present]
    /\ events' = Append(events, Event("context_error", 0, 0))
    /\ pc' = "raised"
    /\ UNCHANGED <<tool_schemas, messages, api_messages, instance_vars, editor, turns, registry_vars, config_skip, project_config, tool_use_context,
                   tool_calls, pos, running_tool, elapsed, model_calls, blocks, yielded>>

\* the same lines, when one of the collaborators raises: the except branch
\* yields the error Message and the generator ends
ContextFails ==
    /\ pc = "startup"
    /\ \E present \in BOOLEAN : can_use_tool' = [present |-> present]
    /\ yielded' = Append(yielded, ErrorMessage(ContextErrorText))
    /\ events' = Append(events, Event("context_error", 0, 0))
    /\ pc' = "done"
    /\ UNCHANGED <<tool_schemas, messages, api_messages, instance_vars, editor, turns, registry_vars, config_skip, project_config, tool_use_context, tool_calls, pos,
                   running_tool, elapsed, model_calls, blocks>>

(***************************************************************************)
(* The model call ends.                                                    *)
(***************************************************************************)
\* an except branch that yields nothing
ModelFailureSilent(text) == << >>

\* what the turn yields when llm_client.generate raised
ModelFailureYield(text) == <<ErrorMessage(text)>>

\* llm_client.generate raises: _get_assistant_response re-raises, the except
\* branch of query_with_tools yields the error Message
ModelRaises ==
    /\ pc = "awaiting_model"
    /\ yielded' = yielded \o ModelFailureYield(ModelErrorText)
    /\ events' = Append(events, Event("model_error", 0, 0))
    /\ pc' = "done"
    /\ UNCHANGED <<tool_schemas, messages, api_messages, instance_vars, editor, turns, registry_vars, config_skip, project_config, can_use_tool, tool_use_context,
                   tool_calls, pos, running_tool, elapsed, model_calls, blocks>>

\* if assistant_response.tool_calls:
HasToolCalls(message) == message.tool_calls.some /\ message.tool_calls.calls # << >>

\* llm_client.generate returns the text: it is parsed, the assistant
\* Message is yielded and, if it has tool calls, the tool phase starts
ModelReturns ==
    /\ pc = "awaiting_model"
    /\ \E segs \in SegSeqs(MaxBlocks) :
          LET assistant_response == ParseLlmResponse(Text(segs))
          IN  /\ blocks' = segs
              /\ yielded' = Append(yielded, assistant_response)
              /\ events' = Append(events, Event("assistant", 0, Len(yielded) + 1))
              /\ IF HasToolCalls(assistant_response)
                 THEN /\ tool_calls' = assistant_response.tool_calls.calls
                      /\ pos' = 1
                      /\ pc' = "tools"
                 ELSE /\ pc' = "done"
                      /\ UNCHANGED <<tool_calls, pos>>
    /\ UNCHANGED <<tool_schemas, messages, api_messages, instance_vars, editor, turns, registry_vars, config_skip, project_config, can_use_tool, tool_use_context,
                   running_tool, elapsed, model_calls>>

(***************************************************************************)
(* _handle_tool_calls: one pass of the loop body, from the top of the      *)
(* iteration to its yield or to the await of execute.                      *)
(***************************************************************************)
HandleToolCall ==
    /\ pc = "tools"
    /\ pos <= Len(tool_calls)
    /\ \E answer \in BOOLEAN :
          LET k == CurrentCall(Len(tool_calls), pos)
              tool_call == tool_calls[k]
              tool_name == tool_call.name
              tool_arguments == tool_call.arguments
              raises == FindRaises(tool_name)
              found == FindToolByName(tool_name)
              consulted == ~raises /\ found # << >> /\ can_use_tool.present
              decision == GateDecision(k, answer)
              content == GateContent(decision, tool_call)
              asked == IF consulted
                       THEN <<Event("callback", k, IF answer THEN 1 ELSE 0)>>
                       ELSE << >>
          IN  /\ consulted \/ answer
              /\ IF decision = "execute"
                 THEN /\ running_tool' = found
                      /\ elapsed' = 0
                      /\ pc' = "executing"
                      /\ events' = events \o asked \o <<Event("start", k, 0)>>
                      /\ UNCHANGED <<pos, yielded>>
                 ELSE /\ yielded' = Append(yielded, ToolMessage(content, tool_call))
                      /\ events' = events \o asked
                                      \o <<Event("yield", k, Len(yielded) + 1)>>
                      /\ pos' = pos + 1
                      /\ pc' = NextPc(Len(tool_calls), pos, TRUE)
                      /\ UNCHANGED <<running_tool, elapsed>>
    /\ UNCHANGED <<tool_schemas, messages, api_messages, instance_vars, editor, turns, registry_vars, config_skip, project_config, can_use_tool, tool_use_context,
                   tool_calls, model_calls, blocks>>

\* the awaited execute has not returned yet
ExecTick ==
    /\ pc = "executing"
    /\ elapsed < MaxTicks
    /\ elapsed' = elapsed + 1
    /\ UNCHANGED <<tool_schemas, messages, api_messages, instance_vars, editor, turns, registry_vars, config_skip, project_config, pc, can_use_tool, tool_use_context,
                   tool_calls, pos, running_tool, model_calls, blocks, yielded,
                   events>>

\* execute returns or raises: _execute_tool makes the string, the loop
\* yields the tool Message and goes on
ExecuteReturns ==
    /\ pc = "executing"
    /\ \E outcome \in Outcomes :
          LET k == CurrentCall(Len(tool_calls), pos)
              tool_call == tool_calls[k]
              tool_result == ExecuteToolResult(running_tool[1], outcome)
          IN  /\ yielded' = Append(yielded, ToolMessage(tool_result, tool_call))
              /\ events' = events \o <<Event("return", k, elapsed),
                                       Event(outcome, k, 0),
                                       Event("yield", k, Len(yielded) + 1)>>
              /\ pc' = NextPc(Len(tool_calls), pos,
                              outcome \in {"failure", "error_only", "raise"})
    /\ pos' = pos + 1
    /\ running_tool' = << >>
    /\ elapsed' = 0
    /\ UNCHANGED <<tool_schemas, messages, api_messages, instance_vars, editor, turns, registry_vars, config_skip, project_config, can_use_tool, tool_use_context,
                   tool_calls, model_calls, blocks>>

Next ==
    \/ Register
    \/ StartTurn
    \/ ContextFails
    \/ ModelRaises
    \/ ModelReturns
    \/ HandleToolCall
    \/ ExecTick
    \/ ExecuteReturns

Spec == Init /\ [][Next]_vars

\* the application registers one of its tools, whose is_enabled returns
\* True, returns False or raises
RegisterEnabledOrNot ==
    \E n \in RegNames, e \in EnabledValues :
        RegisterTool(ToolWith(n, Len(all_tools) + 1, e),
                     n \in CatalogueReadOnly, n \in CatalogueDangerous)

\* the turn over a registry of tools that are enabled or not
EligibilitySpec ==
    Init /\ [][RegisterEnabledOrNot \/ StartTurn \/ ContextFails \/ ModelRaises \/ ModelReturns
                  \/ HandleToolCall \/ ExecTick \/ ExecuteReturns]_vars

\* the turn up to the model call, over tools with any description methods
DescriptorSpec == Init /\ [][RegisterDescribed \/ StartTurn \/ ContextFails]_vars

(***************************************************************************)
(* A tool whose execute never returns.  _execute_tool awaits the coroutine *)
(* of execute as it is (line 233): nothing reads ToolUseContext.timeout,   *)
(* and the generator stays suspended at the await.  The event loop runs    *)
(* every step of the turn that can be taken (weak fairness of Next); it    *)
(* cannot end an await that the tool does not end.                         *)
(***************************************************************************)
ExecuteNeverReturns ==
    /\ pc = "executing"
    /\ pc' = "suspended"
    /\ UNCHANGED <<tool_schemas, messages, api_messages, instance_vars, editor, turns, registry_vars, config_skip, project_config, can_use_tool, tool_use_context,
                   tool_calls, pos, running_tool, elapsed, model_calls, blocks,
                   yielded, events>>

LiveNext == Next \/ ExecuteNeverReturns

LiveSpec == Init /\ [][LiveNext]_vars /\ WF_vars(Next)

(***************************************************************************)
(* The surroundings change while a turn is under way: between two steps of *)
(* the generator the application changes the configured skip flag          *)
(* (ConfigManager.enable_dangerous_mode) or registers a tool.              *)
(***************************************************************************)
MidTurn == {"awaiting_model", "tools", "executing"}

ConfigChanges == {i \in DOMAIN events : events[i].ev = "config"}

EnableDangerousMode ==
    /\ pc \in MidTurn
    /\ Cardinality(ConfigChanges) < MaxConfigChanges
    /\ \E enabled \in BOOLEAN :
          /\ enabled # config_skip
          /\ config_skip' = enabled
          /\ events' = Append(events, Event("config", pos, IF enabled THEN 1 ELSE 0))
    /\ UNCHANGED <<tool_schemas, messages, api_messages, instance_vars, editor, turns, registry_vars, project_config, pc, can_use_tool, tool_use_context, tool_calls,
                   pos, running_tool, elapsed, model_calls, blocks, yielded>>

RegisterDuringTurn ==
    \E n \in RegNames :
        RegisterToolAt(Tool(n, Len(all_tools) + 1),
                       n \in CatalogueReadOnly, n \in CatalogueDangerous, MidTurn)

DriftNext == Next \/ EnableDangerousMode \/ RegisterDuringTurn

DriftSpec == Init /\ [][DriftNext]_vars

(***************************************************************************)
(* Two turns of independent conversations under way at once, on one        *)
(* registry and one configuration.  Every turn is a generator of its own:  *)
(* its parameters and loop variables are locals of query_with_tools and    *)
(* _handle_tool_calls, and a step of one turn is taken between two steps   *)
(* of the other at the await of generate, the await of execute and every   *)
(* yield.  The registry is filled before the first turn starts.            *)
(***************************************************************************)
TwinSegSeqs ==
    UNION {[1..n -> {Seg("flat", name) : name \in BlockNames}] : n \in 0..MaxTwinBlocks}

\* a loop that reads the context the orchestrator was handed last
ContextOfLatest(own, other) == other

\* the tool_use_context a generator reads: its own parameter
ContextOf(own, other) == own

TwinRegister ==
    /\ \A t \in TurnIds : turns[t].pc = "startup"
    /\ Register

\* lines 69-105, up to the await of generate
TwinStart(t) ==
    /\ turns[t].pc = "startup"
    /\ \E present \in BOOLEAN, given \in BOOLEAN, skip \in BOOLEAN :
          turns' = [turns EXCEPT
              ![t].pc = "awaiting_model",
              ![t].api_messages = NormalizeMessagesForApi(messages),
              ![t].can_use_tool = [present |-> present],
              ![t].tool_use_context =
                  IF given
                  THEN [tools |-> GetAllTools, dangerous_skip_permissions |-> skip]
                  ELSE [tools |-> GetToolsWithPermissions(config_skip),
                        dangerous_skip_permissions |-> config_skip]]
    /\ UNCHANGED <<instance_vars, editor, registry_vars, config_skip, project_config, turn_vars>>

\* generate raises
TwinModelRaises(t) ==
    /\ turns[t].pc = "awaiting_model"
    /\ turns' = [turns EXCEPT
          ![t].pc = "failed",
          ![t].yielded = @ \o ModelFailureYield(ModelErrorText)]
    /\ UNCHANGED <<instance_vars, editor, registry_vars, config_skip, project_config, turn_vars>>

\* a loop that keeps the conversation itself: it appends the response to
\* the list of the caller
TwinModelReturnsAppends(t) ==
    /\ turns[t].pc = "awaiting_model"
    /\ \E segs \in TwinSegSeqs :
          LET assistant_response == ParseLlmResponse(Text(segs))
              calls == assistant_response.tool_calls.calls
          IN  /\ turns' = [turns EXCEPT
                    ![t].blocks = segs,
                    ![t].yielded = Append(@, assistant_response),
                    ![t].tool_calls = calls,
                    ![t].pos = 1,
                    ![t].pc = IF HasToolCalls(assistant_response) THEN "tools" ELSE "done"]
              /\ messages' = Append(messages, assistant_response)
    /\ UNCHANGED <<instance_vars, editor, registry_vars, config_skip, project_config, api_messages,
                   pc, can_use_tool, tool_use_context, tool_calls, pos, running_tool,
                   elapsed, model_calls, tool_schemas, blocks, yielded, events>>

\* generate returns: lines 107-116
TwinModelReturns(t) ==
    /\ turns[t].pc = "awaiting_model"
    /\ \E segs \in TwinSegSeqs :
          LET assistant_response == ParseLlmResponse(Text(segs))
              calls == assistant_response.tool_calls.calls
          IN  turns' = [turns EXCEPT
                  ![t].blocks = segs,
                  ![t].yielded = Append(@, assistant_response),
                  ![t].tool_calls = calls,
                  ![t].pos = 1,
                  ![t].pc = IF HasToolCalls(assistant_response) THEN "tools" ELSE "done"]
    /\ UNCHANGED <<instance_vars, editor, registry_vars, config_skip, project_config, turn_vars>>

\* one pass of the loop body of _handle_tool_calls, to its yield or to the
\* await of execute
TwinHandleToolCall(t) ==
    /\ turns[t].pc = "tools"
    /\ \E answer \in BOOLEAN :
          LET me == turns[t]
              tool_call == me.tool_calls[CurrentCall(Len(me.tool_calls), me.pos)]
              context == ContextOf(me.tool_use_context,
                                   turns[CHOOSE u \in TurnIds : u # t].tool_use_context)
              decision == DecisionFor(tool_call, me.can_use_tool, context, answer)
              consulted == /\ ~FindRaises(tool_call.name)
                           /\ FindToolByName(tool_call.name) # << >>
                           /\ me.can_use_tool.present
          IN  /\ consulted \/ answer
              /\ turns' = [turns EXCEPT
                    ![t].log = Append(@, [answer |-> answer, outcome |-> "none"]),
                    ![t].pc = IF decision = "execute" THEN "executing"
                              ELSE NextPc(Len(me.tool_calls), me.pos, TRUE),
                    ![t].pos = IF decision = "execute" THEN @ ELSE @ + 1,
                    ![t].yielded =
                        IF decision = "execute" THEN @
                        ELSE Append(@, ToolMessage(GateContent(decision, tool_call),
                                                   tool_call))]
    /\ UNCHANGED <<instance_vars, editor, registry_vars, config_skip, project_config, turn_vars>>

\* execute returns or raises: the tool Message is yielded
TwinExecuteReturns(t) ==
    /\ turns[t].pc = "executing"
    /\ \E outcome \in Outcomes :
          LET me == turns[t]
              tool_call == me.tool_calls[CurrentCall(Len(me.tool_calls), me.pos)]
              tool == FindToolByName(tool_call.name)[1]
          IN  turns' = [turns EXCEPT
                  ![t].log[Len(me.log)].outcome = outcome,
                  ![t].pc = NextPc(Len(me.tool_calls), me.pos,
                                   outcome \in {"failure", "error_only", "raise"}),
                  ![t].pos = @ + 1,
                  ![t].yielded =
                      Append(@, ToolMessage(ExecuteToolResult(tool, outcome), tool_call))]
    /\ UNCHANGED <<instance_vars, editor, registry_vars, config_skip, project_config, turn_vars>>

TwinNext ==
    \/ TwinRegister
    \/ \E t \in TurnIds :
          \/ TwinStart(t)
          \/ TwinModelRaises(t)
          \/ TwinModelReturns(t)
          \/ TwinHandleToolCall(t)
          \/ TwinExecuteReturns(t)

TwinSpec == Init /\ [][TwinNext]_vars

(***************************************************************************)
(* OHStrReplaceEditorTool.execute_tool: the commands that edit, and        *)
(* undo_edit, on a path whose parent directory exists.                     *)
(***************************************************************************)
InitialFiles ==
    {NoFile, NoParent} \cup {FileOf(data) : data \in {<<"a", "LF">>,
                                                     <<"a", "LF", "b">>,
                                                     <<"a", "CR", "LF", "b">>,
                                                     <<"a", "a", "a">>}}

\* a create that only looks whether the path exists
CreateRefusedIfExists(file) == file.exists

\* _create_file, the two checks before the write
CreateRefused(file) == file.exists \/ ~file.parent

\* command create: _create_file
CreateFile(instance_id) ==
    /\ \E file_text \in {<< >>, <<"a">>, <<"a", "CR", "LF">>, <<"SUR">>} :
          LET args == [NoArgs EXCEPT !.file_text = file_text]
          IN  /\ Cardinality({e \in InstanceIds \X (1..MaxEdits) :
                                  e[2] <= Len(History(e[1]))}) < MaxEdits
              /\ IF file_text = << >> \/ CreateRefused(editor.file)
                 THEN Fails(instance_id, "create", args)
                 ELSE IF ~Encodable(file_text)
                 THEN editor' = [editor EXCEPT
                          !.file_history = Touched(instance_id),
                          !.file = FileOf(<< >>),
                          !.last = [command |-> "create", instance_id |-> instance_id,
                                    args |-> args, success |-> FALSE,
                                    owed |-> editor.before[instance_id] # << >>,
                                    expected |-> NoFile]]
                 ELSE Edits(instance_id, "create", args, << >>, file_text)
    /\ UNCHANGED <<instance_vars, turns, registry_vars, config_skip, project_config, turn_vars>>

\* command str_replace: _str_replace
StrReplace(instance_id) ==
    /\ \E old_str \in {<<"a">>, <<"b">>, <<"a", "a">>},
          new_str \in {<< >>, <<"b">>, <<"SUR">>} :
          LET content == TextRead(editor.file.data)
              args == [NoArgs EXCEPT !.old_str = old_str, !.new_str = new_str]
          IN  /\ Cardinality({e \in InstanceIds \X (1..MaxEdits) :
                                  e[2] <= Len(History(e[1]))}) < MaxEdits
              /\ IF \/ ~editor.file.exists
                    \/ Cardinality(Occurrences(content, old_str, 1)) # 1
                 THEN Fails(instance_id, "str_replace", args)
                 ELSE IF ~Encodable(Replace(content, old_str, new_str))
                 THEN WriteFails(instance_id, "str_replace", args, content, << >>)
                 ELSE Edits(instance_id, "str_replace", args, content,
                            Replace(content, old_str, new_str))
    /\ UNCHANGED <<instance_vars, turns, registry_vars, config_skip, project_config, turn_vars>>

\* command insert: _insert_line
InsertLine(instance_id) ==
    /\ \E insert_line \in (0 - 1)..3,
          new_str \in {<<"b">>, <<"b", "LF">>, <<"SUR">>} :
          LET text == TextRead(editor.file.data)
              line == IF new_str[Len(new_str)] = "LF" THEN new_str
                      ELSE Append(new_str, "LF")
              args == [NoArgs EXCEPT !.insert_line = insert_line, !.new_str = new_str]
          IN  /\ Cardinality({e \in InstanceIds \X (1..MaxEdits) :
                                  e[2] <= Len(History(e[1]))}) < MaxEdits
              /\ IF \/ ~editor.file.exists
                    \/ insert_line < 0
                    \/ insert_line > Cardinality(LineEnds(text))
                 THEN Fails(instance_id, "insert", args)
                 ELSE IF ~Encodable(line)
                 THEN WriteFails(instance_id, "insert", args, text,
                                 SubSeq(text, 1, InsertPoint(text, insert_line)))
                 ELSE Edits(instance_id, "insert", args, text,
                            InsertAt(text, insert_line, line))
    /\ UNCHANGED <<instance_vars, turns, registry_vars, config_skip, project_config, turn_vars>>

\* command undo_edit: _undo_edit
UndoEdit(instance_id) ==
    /\    IF History(instance_id) = << >>
          THEN Fails(instance_id, "undo_edit", NoArgs)
          ELSE LET history == History(instance_id)
                   last_edit == history[Len(history)]
                   before == editor.before[instance_id]
               IN  editor' = [editor EXCEPT
                       !.file_history =
                           Recorded(instance_id, SubSeq(history, 1, Len(history) - 1)),
                       !.file = IF last_edit.operation = "create" THEN NoFile
                                ELSE FileOf(TextWrite(last_edit.old_content)),
                       !.before[instance_id] =
                           IF @ = << >> THEN @ ELSE SubSeq(@, 1, Len(@) - 1),
                       !.last = [command |-> "undo_edit", instance_id |-> instance_id,
                                 args |-> NoArgs, success |-> TRUE,
                                 owed |-> before # << >>,
                                 expected |-> IF before = << >> THEN NoFile
                                              ELSE before[Len(before)]]]
    /\ UNCHANGED <<instance_vars, turns, registry_vars, config_skip, project_config, turn_vars>>

EditorInit == TurnInit /\ \E file \in InitialFiles : editor = NewEditor(file)

\* one instance edits the path
EditorNext ==
    \E instance_id \in {"i1"} :
        \/ CreateFile(instance_id)
        \/ StrReplace(instance_id)
        \/ InsertLine(instance_id)
        \/ UndoEdit(instance_id)

EditorSpec == EditorInit /\ [][EditorNext]_vars

\* two instances of one editor tool replace strings in the file at the path
\* and undo
SharedEditorNext ==
    \E instance_id \in InstanceIds :
        \/ CreateFile(instance_id)
        \/ StrReplace(instance_id)
        \/ UndoEdit(instance_id)

SharedEditorSpec == EditorInit /\ [][SharedEditorNext]_vars

\* set_tool_permission calls on the configuration of a fresh working directory
ConfigSpec == Init /\ [][SetToolPermission]_vars

(***************************************************************************)
(* OHThinkTool: execute_tool and clear_thoughts.                           *)
(***************************************************************************)
ThinkExecute ==
    /\ \E instance_id \in InstanceIds,
          thought \in {[q \in 1..n |-> "x"] : n \in 0..(max_thought_length + 1)} :
          /\ Len(GetThoughtsForInstance(instance_id)) < MaxThoughts
          /\ LET last == [command |-> "think", instance_id |-> instance_id,
                          thought |-> thought, success |-> thought # << >>]
                 entry == [thought |-> Truncate(thought), timestamp |-> "None"]
             IN  IF thought = << >>
                 THEN think' = [think EXCEPT !.last = last]
                 ELSE think' = [think EXCEPT
                          !.thoughts_history =
                              Put(@, instance_id,
                                  Append(GetThoughtsForInstance(instance_id), entry)),
                          !.submitted[instance_id] = Append(@, thought),
                          !.last = last]
    /\ UNCHANGED <<finish, bash, editor, turns, registry_vars, config_skip, project_config, turn_vars>>

ClearThoughts ==
    /\ \E instance_id \in InstanceIds :
          LET known == instance_id \in DOMAIN think.thoughts_history
              last == [command |-> "clear_thoughts", instance_id |-> instance_id,
                       thought |-> << >>, success |-> known]
          IN  IF known
              THEN think' = [think EXCEPT
                       !.thoughts_history = Put(@, instance_id, << >>),
                       !.submitted[instance_id] = << >>,
                       !.last = last]
              ELSE think' = [think EXCEPT !.last = last]
    /\ UNCHANGED <<finish, bash, editor, turns, registry_vars, config_skip, project_config, turn_vars>>

ThinkSpec == Init /\ [][ThinkExecute \/ ClearThoughts]_vars

(***************************************************************************)
(* OHFinishTool: execute_tool and calculate_reward.  A parameter the call  *)
(* does not give is Absent; parameters.get puts its default in its place.  *)
(***************************************************************************)
Absent == "<absent>"

FinishExecute ==
    /\ \E instance_id \in InstanceIds,
          message \in {"", "Done"},
          commit_message \in {"", "feat: done"},
          given \in {Absent, "true", "false", "partial", "maybe"} :
          LET task_completed == IF given = Absent THEN "false" ELSE given
              valid == /\ message # ""
                       /\ commit_message # ""
                       /\ task_completed \in {"true", "false", "partial"}
              completion_info == [message |-> message,
                                  commit_message |-> commit_message,
                                  task_completed |-> task_completed]
          IN  finish' = [finish EXCEPT
                  !.completions = IF valid THEN Put(@, instance_id, completion_info)
                                  ELSE @,
                  !.last = [instance_id |-> instance_id,
                            parameters |-> [message |-> message,
                                            commit_message |-> commit_message,
                                            task_completed |-> given],
                            success |-> valid]]
    /\ UNCHANGED <<think, bash, editor, turns, registry_vars, config_skip, project_config, turn_vars>>

\* calculate_reward(instance_id), as the text of the float
CalculateReward(instance_id) ==
    IF instance_id \notin DOMAIN finish.completions THEN "0.0"
    ELSE CASE finish.completions[instance_id].task_completed = "true" -> "1.0"
           [] finish.completions[instance_id].task_completed = "partial" -> "0.5"
           [] OTHER -> "0.2"

FinishSpec == Init /\ [][FinishExecute]_vars

(***************************************************************************)
(* OHBashTool.execute_tool in local mode.  Processes are numbered in the   *)
(* order they are started; running_process 0 is None.  A call says whether *)
(* its timeout is longer than default_timeout and how the command ends     *)
(* within the timeout, if it does.                                         *)
(***************************************************************************)
BashExecute ==
    /\ \E instance_id \in InstanceIds, is_input \in BOOLEAN,
          command \in {"C-c", "C-d", "sleep 5"}, long \in BOOLEAN,
          ends \in {"exit 0", "exit 1", "runs on"} :
          LET session == IF instance_id \in DOMAIN bash.sessions
                         THEN bash.sessions[instance_id]
                         ELSE [cwd |-> "None", env |-> "None", running_process |-> 0]
              process == bash.started + 1
              result(outcome, success) ==
                  [instance_id |-> instance_id, is_input |-> is_input,
                   command |-> command, outcome |-> outcome, success |-> success]
              keep(running_process) ==
                  Put(bash.sessions, instance_id,
                      [session EXCEPT !.running_process = running_process])
          IN  IF is_input /\ session.running_process # 0
              THEN IF command = "C-c"
                   THEN bash' = [bash EXCEPT
                            !.sessions = keep(0),
                            !.alive = @ \ {session.running_process},
                            !.last = result("terminated", TRUE)]
                   ELSE bash' = [bash EXCEPT
                            !.sessions = keep(session.running_process),
                            !.last = result(IF command = "C-d" THEN "eof" ELSE "input",
                                            TRUE)]
              ELSE /\ bash.started < MaxProcesses
                   /\ command # "sleep 5" => ends = "exit 1"
                   /\ IF ends = "runs on"
                      THEN bash' = [bash EXCEPT
                               !.sessions = keep(process),
                               !.started = process,
                               !.alive = @ \cup {process},
                               !.last = result("timed out", FALSE)]
                      ELSE bash' = [bash EXCEPT
                               !.sessions = keep(IF long THEN 0
                                                 ELSE session.running_process),
                               !.started = process,
                               !.last = result("completed", ends = "exit 0")]
    /\ UNCHANGED <<think, finish, editor, turns, registry_vars, config_skip, project_config, turn_vars>>

BashSpec == Init /\ [][BashExecute]_vars

(***************************************************************************)
(* Reading the history of a turn.                                          *)
(***************************************************************************)
EventsOf(ev, k) == {i \in DOMAIN events : events[i].ev = ev /\ events[i].call = k}

\* execute was entered for the k-th tool call
Invoked(k) == EventsOf("start", k) # {}

\* the loop body has come to its end for the k-th tool call
Answered(k) == EventsOf("yield", k) # {}

\* the tool Message yielded for the k-th tool call
MessageOf(k) == yielded[events[CHOOSE i \in EventsOf("yield", k) : TRUE].n]

\* execute was entered for the k-th tool call and ended with that outcome
Returned(k, outcome) == EventsOf(outcome, k) # {}

\* the approval callback was called for the k-th tool call and returned b
CallbackReturned(k, b) ==
    \E i \in EventsOf("callback", k) : events[i].n = (IF b THEN 1 ELSE 0)

Registered(tool_name) ==
    tool_name.type = "str" /\ tool_name.s \in DOMAIN tool_registry

\* the loop body has decided the k-th tool call, which names a registered
\* tool tagged dangerous
DangerousCall(k) ==
    /\ Registered(tool_calls[k].name)
    /\ IsToolDangerous(tool_calls[k].name)
    /\ Answered(k) \/ Invoked(k)

ToolMessages == SelectSeq(yielded, LAMBDA msg : msg.role = "tool")

InToolPhase == pc \in {"tools", "executing", "done"} /\ tool_calls # << >>

ModelFailed == \E i \in DOMAIN events : events[i].ev = "model_error"

ContextFailed == \E i \in DOMAIN events : events[i].ev = "context_error"

ModelAnswered == \E i \in DOMAIN events : events[i].ev = "assistant"

\* a segment that is a syntactically valid Action block: JSON with a name
ValidBlock(sg) == sg.shape \in {"flat", "nested", "scalar"}

ValidBlocks == SelectSeq(blocks, ValidBlock)

C2_OneMessagePerCall ==
    /\ InToolPhase =>
          /\ Len(ToolMessages) = pos - 1
          /\ pc = "done" => Len(ToolMessages) = Len(tool_calls)
          /\ \A k \in 1..Len(tool_calls) : k < pos => Cardinality(EventsOf("yield", k)) = 1
    /\ \A k \in 1..Len(tool_calls) : Cardinality(EventsOf("start", k)) <= 1

\* scenario 2: the first call names an unregistered tool, the second call
\* is executed and succeeds
C2_Witness ==
    /\ pc = "done"
    /\ Len(tool_calls) = 2
    /\ Len(ToolMessages) = 2
    /\ ~Invoked(1)
    /\ ToolMessages[1].content = NoSuchToolContent(JStr("ghost_tool"))
    /\ Invoked(2)
    /\ ToolMessages[2].content = ToolOutput(tool_registry["search_files"])

(***************************************************************************)
(* C3.  Unknown tool invariant, as claimed: for a tool call whose name is  *)
(* not registered no execute is entered and the content of its tool        *)
(* Message is "Error: No such tool available: <name>".                     *)
(***************************************************************************)
C3_UnknownTool ==
    \A k \in 1..Len(tool_calls) :
        Answered(k) /\ ~Registered(tool_calls[k].name)
            => /\ ~Invoked(k)
               /\ MessageOf(k).content = NoSuchToolContent(tool_calls[k].name)

(***************************************************************************)
(* C4.  Permission invariant: when the approval callback returned false    *)
(* for a call, execute is not entered for it and the content of its tool   *)
(* Message is "Error: Permission denied for tool: <name>", whatever the    *)
(* dangerous tag of the tool and dangerous_skip_permissions are.           *)
(***************************************************************************)
C4_PermissionDenied ==
    \A k \in 1..Len(tool_calls) :
        CallbackReturned(k, FALSE)
            => /\ Registered(tool_calls[k].name)
               /\ ~Invoked(k)
               /\ Answered(k)
               /\ MessageOf(k).content = PermissionDeniedContent(tool_calls[k].name)

\* the callback denied a call to a dangerous tool in a turn that does not
\* skip permissions: the call fails both gates
C4_Witness ==
    \E k \in 1..Len(tool_calls) :
        /\ CallbackReturned(k, FALSE)
        /\ IsToolDangerous(tool_calls[k].name)
        /\ ~tool_use_context.dangerous_skip_permissions
        /\ Answered(k)

C6_DangerousWithoutPermission ==
    ~tool_use_context.dangerous_skip_permissions /\ ~can_use_tool.present
        => \A k \in 1..Len(tool_calls) :
              (/\ Registered(tool_calls[k].name)
               /\ IsToolDangerous(tool_calls[k].name)
               /\ Answered(k) \/ Invoked(k))
                  => /\ ~Invoked(k)
                     /\ Answered(k)
                     /\ MessageOf(k).content = DangerousContent(tool_calls[k].name)

\* scenario 3: write_file is called in such a turn
C6_Witness ==
    /\ pc = "done"
    /\ ~tool_use_context.dangerous_skip_permissions
    /\ ~can_use_tool.present
    /\ \E k \in 1..Len(tool_calls) :
          /\ tool_calls[k].name = JStr("write_file")
          /\ Registered(tool_calls[k].name)
          /\ MessageOf(k).content = "Error: Dangerous tool write_file requires permission"

(***************************************************************************)
(* C7.  Fatal model failure: when the model call raised, the turn is over  *)
(* and has yielded exactly one Message, an assistant Message that holds    *)
(* the error text; no tool Message is yielded and no execute is entered.   *)
(***************************************************************************)
C7_ModelFailure ==
    ModelFailed
        => /\ pc = "done"
           /\ Len(yielded) = 1
           /\ yielded[1].role = "assistant"
           /\ yielded[1].content = "I encountered an error: " \o ModelErrorText
                                      \o ". Please try again or rephrase your request."
           /\ ToolMessages = << >>
           /\ \A i \in DOMAIN events : events[i].ev # "start"

C7_Witness == ModelFailed /\ model_calls = 1 /\ all_tools # << >>

(***************************************************************************)
(* C8.  As claimed: a response with N syntactically valid Action blocks    *)
(* gives exactly N tool calls, in source order, the k-th of them (from 0)  *)
(* with the id call_k.                                                     *)
(***************************************************************************)
C8_ExactlyNCalls ==
    ModelAnswered
        => LET calls == yielded[1].tool_calls.calls
           IN  /\ Len(calls) = Len(ValidBlocks)
               /\ \A k \in 1..Len(calls) :
                     /\ calls[k].id = CallId(k - 1)
                     /\ calls[k].name = ValidBlocks[k].name

(***************************************************************************)
(* C9.  Scenario 1, as claimed: the response                               *)
(*   Action: {"name": "search_files", "parameters": {"pattern": "*.py"}}   *)
(* with search_files registered read-only gives one tool call whose        *)
(* arguments are {"pattern": "*.py"} and the turn yields one tool Message  *)
(* with what the tool returned.                                            *)
(***************************************************************************)
C9_Scenario1 ==
    (/\ pc = "done"
     /\ blocks = <<Seg("nested", JStr("search_files"))>>
     /\ Registered(JStr("search_files"))
     /\ IsToolReadOnly(JStr("search_files")))
        => /\ yielded[1].tool_calls.some
           /\ Len(yielded[1].tool_calls.calls) = 1
           /\ yielded[1].tool_calls.calls[1].name = JStr("search_files")
           /\ yielded[1].tool_calls.calls[1].arguments = PatternArgs
           /\ Len(yielded) = 2
           /\ yielded[2].role = "tool"
           /\ yielded[2].content
                 \in {ExecuteToolResult(tool_registry["search_files"], o) : o \in Outcomes}

(***************************************************************************)
(* C10.  A response without any valid Action block is interpreted as "no   *)
(* calls": the assistant Message has tool_calls None, the turn ends with   *)
(* that Message alone, no tool Message is yielded, no execute is entered.  *)
(***************************************************************************)
C10_NoCalls ==
    ModelAnswered /\ ValidBlocks = << >>
        => /\ yielded[1].role = "assistant"
           /\ yielded[1].tool_calls = NoneCalls
           /\ pc = "done"
           /\ Len(yielded) = 1
           /\ tool_calls = << >>
           /\ \A i \in DOMAIN events : events[i].ev # "start"

\* the response holds Action blocks, none of them valid
C10_Witness ==
    /\ ModelAnswered
    /\ ValidBlocks = << >>
    /\ \E i \in DOMAIN blocks : blocks[i].shape = "trailing"
    /\ \E i \in DOMAIN blocks : blocks[i].shape = "noname"
    /\ all_tools # << >>

(***************************************************************************)
(* Reading the registry.                                                   *)
(***************************************************************************)
\* the positions of the listing that hold a tool of that name
EntriesOf(listing, n) == {i \in DOMAIN listing : listing[i].name = n}

\* the instance handed to the most recent register_tool call for that name
LatestInstance(n) ==
    all_tools[CHOOSE i \in EntriesOf(all_tools, n) :
                  \A j \in EntriesOf(all_tools, n) : j <= i]

\* the name was never handed to register_tool
NeverRegistered(n) == EntriesOf(all_tools, n) = {}

(***************************************************************************)
(* C11.  Re-registration replaces the instance, as claimed: for every      *)
(* registered name, lookup returns the instance of the latest register     *)
(* call, the listing of all tools holds exactly one entry of that name,    *)
(* that instance, and the listing of available tools holds no other entry  *)
(* of that name.                                                           *)
(***************************************************************************)
C11_ReRegistration ==
    \A n \in RegNames :
        ~NeverRegistered(n)
            => /\ FindToolByName(JStr(n)) = <<LatestInstance(n)>>
               /\ \A i \in EntriesOf(GetAllTools, n) :
                     GetAllTools[i] = LatestInstance(n)
               /\ Cardinality(EntriesOf(GetAllTools, n)) = 1
               /\ \A skip \in BOOLEAN :
                     /\ \A i \in EntriesOf(GetToolsWithPermissions(skip), n) :
                           GetToolsWithPermissions(skip)[i] = LatestInstance(n)
                     /\ Cardinality(EntriesOf(GetToolsWithPermissions(skip), n)) <= 1

(***************************************************************************)
(* C12.  Re-registration replaces the flags, as claimed: right after       *)
(* register_tool(tool, is_read_only, is_dangerous) the registry reports    *)
(* the name dangerous exactly if is_dangerous, and read-only exactly if    *)
(* is_read_only.                                                           *)
(***************************************************************************)
C12_FlagsReplaced ==
    [][\A n \in RegNames, e \in EnabledValues, ro \in BOOLEAN, dg \in BOOLEAN :
          RegisterTool(ToolWith(n, Len(all_tools) + 1, e), ro, dg)
              => /\ (n \in dangerous_tools') = dg
                 /\ (n \in read_only_tools') = ro]_vars

C17_UnknownNameUntagged ==
    \A n \in RegNames \cup {"ghost_tool"} :
        NeverRegistered(n)
            => /\ ~TagLookupRaises(JStr(n))
               /\ ~IsToolDangerous(JStr(n))
               /\ ~IsToolReadOnly(JStr(n))

\* a registry with a dangerous name, a read-only name and a name it has
\* never seen
C17_Witness ==
    /\ dangerous_tools # {}
    /\ read_only_tools # {}
    /\ \E n \in RegNames : NeverRegistered(n)

(***************************************************************************)
(* C14.  As claimed: when execute raised an exception with message m, the  *)
(* content of the tool Message of the call is                              *)
(* "Error: Tool execution failed: m", and the calls after it are still     *)
(* processed (the turn ends with one tool Message per call).               *)
(***************************************************************************)
C14_ExecuteRaises ==
    \A k \in 1..Len(tool_calls) :
        Returned(k, "raise")
            => /\ Answered(k)
               /\ MessageOf(k).content = ExecutionFailedContent(ToolExceptionText)
               /\ pc = "done" => \A j \in k..Len(tool_calls) : Answered(j)

(***************************************************************************)
(* C15.  As claimed: when execute returned a ToolResult, the content of    *)
(* the tool Message is the stringified content if success is true, and     *)
(* "Error: " followed by the tool's own error text if success is false.    *)
(***************************************************************************)
C15_ResultContent ==
    \A k \in 1..Len(tool_calls) :
        LET tool == tool_registry[tool_calls[k].name.s]
        IN  /\ Returned(k, "success") => MessageOf(k).content = ToolOutput(tool)
            /\ Returned(k, "failure")
                  => MessageOf(k).content = "Error: " \o ToolFailureText(tool)
            /\ Returned(k, "error_only")
                  => MessageOf(k).content = "Error: " \o ToolFailureText(tool)

(***************************************************************************)
(* C16.  As claimed: every tool call is bounded by the timeout of the      *)
(* context, so a turn whose tool phase has entered an execute always       *)
(* reaches its end, also when that execute never returns.                  *)
(***************************************************************************)
C16_TurnCompletes == (pc = "executing") ~> (pc = "done")

(***************************************************************************)
(* C19.  As claimed: once the tool phase has started, no change of the     *)
(* configured skip flag and no change of the registry changes what the     *)
(* gates decide for a call of the turn.                                    *)
(***************************************************************************)
C19_AsClaimed ==
    [][(pc \in {"tools", "executing"})
          => (\A k \in 1..Len(tool_calls), answer \in BOOLEAN :
                 GateDecision(k, answer)' = GateDecision(k, answer))]_vars

(***************************************************************************)
(* C19 as amended.  The ToolUseContext does not change during the tool     *)
(* phase, and a step that leaves the registry as it is, a change of the    *)
(* configured skip flag among them, does not change what the gates decide  *)
(* for a call of the turn.                                                 *)
(***************************************************************************)
C19_ContextFixed ==
    [][(pc \in {"tools", "executing"})
          => (/\ tool_use_context' = tool_use_context
              /\ registry_vars' = registry_vars
                    => (\A k \in 1..Len(tool_calls), answer \in BOOLEAN :
                           GateDecision(k, answer)' = GateDecision(k, answer)))]_vars

\* the skip flag was switched on during the tool phase of a turn whose
\* context was built without it, and a later call to a dangerous tool was
\* still stopped by the dangerous gate
C19_Witness ==
    /\ ~tool_use_context.dangerous_skip_permissions
    /\ config_skip
    /\ \E i \in ConfigChanges, k \in 1..Len(tool_calls) :
          /\ events[i].n = 1
          /\ events[i].call >= 1
          /\ \E j \in EventsOf("yield", k) : i < j
          /\ IsToolDangerous(tool_calls[k].name)
          /\ MessageOf(k).content = DangerousContent(tool_calls[k].name)

(***************************************************************************)
(* What a turn yields when it runs alone on the registry: the assistant    *)
(* Message of its response and, for each of the first n calls, the tool    *)
(* Message that its own callback, its own context and the outcome of the   *)
(* call come to.                                                           *)
(***************************************************************************)
SoloToolMessage(tool_call, callback, context, entry) ==
    LET decision == DecisionFor(tool_call, callback, context, entry.answer)
    IN  ToolMessage(IF decision = "execute"
                    THEN ExecuteToolResult(FindToolByName(tool_call.name)[1],
                                           entry.outcome)
                    ELSE GateContent(decision, tool_call),
                    tool_call)

SoloYielded(segs, callback, context, log, n) ==
    LET assistant_response == ParseLlmResponse(Text(segs))
    IN  <<assistant_response>>
            \o [k \in 1..n |-> SoloToolMessage(assistant_response.tool_calls.calls[k],
                                               callback, context, log[k])]

(***************************************************************************)
(* C18.  Two turns interleaved at their suspension points on one registry  *)
(* do not interfere: at every point of a turn the Messages it has yielded  *)
(* are, in order, the ones it yields alone, decided by its own context and *)
(* its own callback, and a turn that is done has answered all its calls.   *)
(***************************************************************************)
C18_NoInterference ==
    \A t \in TurnIds :
        LET me == turns[t]
        IN  /\ me.pc \in {"tools", "executing", "done"}
                  => me.yielded = SoloYielded(me.blocks, me.can_use_tool,
                                              me.tool_use_context, me.log, me.pos - 1)
            /\ me.pc = "done" => me.pos - 1 = Len(me.tool_calls)
            /\ me.pc = "failed" => me.yielded = <<ErrorMessage(ModelErrorText)>>

\* both turns are suspended in an execute at the same time: the first, with
\* a callback and a context that skips permissions, runs the dangerous
\* tool; the second has no callback and a context that does not skip
C18_Witness ==
    /\ turns[1].pc = "executing" /\ turns[2].pc = "executing"
    /\ turns[1].tool_use_context.dangerous_skip_permissions
    /\ ~turns[2].tool_use_context.dangerous_skip_permissions
    /\ turns[1].can_use_tool.present /\ ~turns[2].can_use_tool.present
    /\ IsToolDangerous(turns[1].tool_calls[1].name)
    /\ Len(turns[1].yielded) = 1 /\ Len(turns[2].yielded) = 1

(***************************************************************************)
(* C20.  As claimed: undo_edit is the LIFO inverse of the successful edits *)
(* of the instance on the path.  An undo_edit succeeds exactly if an edit  *)
(* is there that was not undone, and it leaves the file exactly as it was  *)
(* before the latest such edit: with the same content after a str_replace  *)
(* or an insert, absent after a create.                                    *)
(***************************************************************************)
C20_UndoIsLifoInverse ==
    editor.last.command = "undo_edit"
        => /\ editor.last.success <=> editor.last.owed
           /\ editor.last.success => editor.file = editor.last.expected

(***************************************************************************)
(* C21.  str_replace succeeds only when old_str occurs exactly once in the *)
(* file; when old_str occurs at no place or at more than one place of the  *)
(* file the call returns success=false, the file is unchanged and no       *)
(* history entry is added.                                                 *)
(***************************************************************************)
C21_StrReplaceUnique ==
    [][(editor'.last.command = "str_replace") =>
          LET data == editor.file.data
              old_str == editor'.last.args.old_str
              places == {q \in 1..Len(data) :
                            /\ q + Len(old_str) - 1 <= Len(data)
                            /\ SubSeq(data, q, q + Len(old_str) - 1) = old_str}
          IN  /\ editor'.last.success => Cardinality(places) = 1
              /\ Cardinality(places) # 1 =>
                    /\ ~editor'.last.success
                    /\ editor'.file = editor.file
                    /\ \A i \in InstanceIds : History(i)' = History(i)]_vars

(***************************************************************************)
(* C22.  create returns success=false when the path exists or its parent   *)
(* directory does not: nothing is written and no history entry is added.   *)
(* When it succeeds the file holds exactly file_text and a create entry is *)
(* the last of the history of the path.                                    *)
(***************************************************************************)
C22_Create ==
    [][(editor'.last.command = "create") =>
          /\ editor.file.exists \/ ~editor.file.parent =>
                /\ ~editor'.last.success
                /\ editor'.file = editor.file
                /\ \A i \in InstanceIds : History(i)' = History(i)
          /\ editor'.last.success =>
                /\ editor'.file = FileOf(editor'.last.args.file_text)
                /\ \A i \in InstanceIds :
                      i = editor'.last.instance_id =>
                          /\ Len(History(i)') = Len(History(i)) + 1
                          /\ History(i)'[Len(History(i)')].operation = "create"]_vars

\* a create was refused for a missing parent directory, and another wrote a
\* text with a carriage return
C22_Witness ==
    \/ /\ editor.last.command = "create"
       /\ ~editor.last.success
       /\ editor.last.args.file_text # << >>
       /\ ~editor.file.parent
    \/ /\ editor.last.command = "create"
       /\ editor.last.success
       /\ editor.file.data = <<"a", "CR", "LF">>

(***************************************************************************)
(* C23.  For every instance the stored thoughts are, in call order, the    *)
(* non-empty thoughts handed in since the last clear_thoughts, each cut to *)
(* max_thought_length characters and followed by "... (truncated)" when it *)
(* was longer; an empty thought returns success=false and leaves the       *)
(* history as it was; clear_thoughts empties the history of the instance   *)
(* and returns true exactly when thoughts_history has an entry for it.     *)
(***************************************************************************)
C23_ThoughtsHistory ==
    [][/\ \A i \in InstanceIds :
             LET stored == GetThoughtsForInstance(i)'
                 handed == think'.submitted[i]
             IN  /\ Len(stored) = Len(handed)
                 /\ \A k \in DOMAIN stored :
                       stored[k].thought =
                           IF Len(handed[k]) > max_thought_length
                           THEN SubSeq(handed[k], 1, max_thought_length)
                                    \o <<"... (truncated)">>
                           ELSE handed[k]
       /\ (think'.last.command = "think" /\ think'.last.thought = << >>) =>
             /\ ~think'.last.success
             /\ think'.thoughts_history = think.thoughts_history
       /\ (think'.last.command = "clear_thoughts") =>
             /\ think'.last.success
                   <=> think'.last.instance_id \in DOMAIN think.thoughts_history
             /\ \A i \in InstanceIds :
                   i = think'.last.instance_id => GetThoughtsForInstance(i)' = << >>]_vars

\* one instance holds a short thought and a cut one, in that order, and the
\* other has just cleared a history it had
C23_Witness ==
    /\ think.last.command = "clear_thoughts"
    /\ think.last.success
    /\ think.last.instance_id = "i2"
    /\ think.submitted["i1"] = <<<<"x">>, [q \in 1..(max_thought_length + 1) |-> "x"]>>
    /\ Len(GetThoughtsForInstance("i1")) = 2

(***************************************************************************)
(* C24.  The finish tool stores a completion only on a valid call: message *)
(* and commit_message not empty and task_completed one of true, false,     *)
(* partial.  An invalid call returns success=false and leaves completions  *)
(* as they were.  calculate_reward is 0.0 while nothing is stored for the  *)
(* instance and after that 1.0, 0.5 or 0.2 by the task_completed of the    *)
(* latest valid call of the instance.                                      *)
(***************************************************************************)
C24_FinishReward ==
    [][LET given == finish'.last.parameters
           valid == /\ given.message # ""
                    /\ given.commit_message # ""
                    /\ given.task_completed \in {"true", "false", "partial"}
       IN  /\ ~valid => /\ ~finish'.last.success
                        /\ finish'.completions = finish.completions
           /\ \A i \in InstanceIds :
                 CalculateReward(i)' =
                     IF valid /\ i = finish'.last.instance_id
                     THEN CASE given.task_completed = "true" -> "1.0"
                            [] given.task_completed = "partial" -> "0.5"
                            [] OTHER -> "0.2"
                     ELSE CalculateReward(i)]_vars

(***************************************************************************)
(* C25.  The session of an instance is created at its first call with      *)
(* running_process null; a command that does not end within its timeout    *)
(* returns success=false, "timed out", and is left as the running_process  *)
(* of the instance; C-c as input to a recorded process terminates it and   *)
(* sets running_process to null; a command that completes leaves           *)
(* running_process null; a call changes no session of another instance.    *)
(***************************************************************************)
C25_BashSession ==
    [][LET i == bash'.last.instance_id
           first == i \notin DOMAIN bash.sessions
           recorded == IF first THEN 0 ELSE bash.sessions[i].running_process
       IN  /\ i \in DOMAIN bash'.sessions
           /\ (first /\ bash'.last.outcome # "timed out") =>
                 bash'.sessions[i].running_process = 0
           /\ bash'.last.outcome = "timed out" =>
                 /\ ~bash'.last.success
                 /\ bash'.sessions[i].running_process = bash'.started
                 /\ bash'.started \in bash'.alive
           /\ (bash'.last.is_input /\ bash'.last.command = "C-c" /\ recorded # 0) =>
                 /\ bash'.last.outcome = "terminated"
                 /\ recorded \notin bash'.alive
                 /\ bash'.sessions[i].running_process = 0
           /\ bash'.last.outcome = "completed" =>
                 bash'.sessions[i].running_process = 0
           /\ \A j \in InstanceIds \ {i} :
                 /\ j \in DOMAIN bash'.sessions <=> j \in DOMAIN bash.sessions
                 /\ j \in DOMAIN bash.sessions => bash'.sessions[j] = bash.sessions[j]]_vars

(***************************************************************************)
(* C26.  The gates of a call are taken in the order registry lookup,       *)
(* approval callback, dangerous gate, and the first that fails alone makes *)
(* the one Message of the call: for a name that is not registered the      *)
(* callback is not consulted and the content is the no-such-tool error;    *)
(* the dangerous-tool error is given only to a call the callback, if there *)
(* is one, allowed; a registered dangerous tool with a denying callback    *)
(* and dangerous_skip_permissions false gets the permission-denied error.  *)
(***************************************************************************)
C26_GateOrder ==
    \A k \in 1..Len(tool_calls) :
        LET tool_name == tool_calls[k].name
        IN  /\ Cardinality(EventsOf("yield", k)) <= 1
            /\ EventsOf("callback", k) # {} => Registered(tool_name)
            /\ (Answered(k) /\ ~Registered(tool_name)) =>
                  MessageOf(k).content = NoSuchToolContent(tool_name)
            /\ (Answered(k) /\ MessageOf(k).content = DangerousContent(tool_name)) =>
                  /\ Registered(tool_name)
                  /\ ~CallbackReturned(k, FALSE)
                  /\ can_use_tool.present => CallbackReturned(k, TRUE)
            /\ (/\ Registered(tool_name)
                /\ IsToolDangerous(tool_name)
                /\ CallbackReturned(k, FALSE)
                /\ ~tool_use_context.dangerous_skip_permissions) =>
                  /\ Answered(k)
                  /\ MessageOf(k).content = PermissionDeniedContent(tool_name)

(***************************************************************************)
(* C27.  A turn issues at most one generate call, and exactly one once     *)
(* context building has succeeded; when generate has returned, the first   *)
(* Message yielded is the assistant Message with the text of the model,    *)
(* and every Message after it is a tool Message.                           *)
(***************************************************************************)
C27_OneModelCall ==
    /\ model_calls <= 1
    /\ (pc # "startup" /\ ~ContextFailed) => model_calls = 1
    /\ ContextFailed => model_calls = 0
    /\ ModelAnswered =>
          /\ yielded[1] = Message("assistant", Text(blocks),
                                  ExtractToolCalls(Text(blocks)), "", JNull)
          /\ \A i \in 2..Len(yielded) : yielded[i].role = "tool"
          /\ \A i \in DOMAIN events :
                events[i].ev \in {"callback", "start", "yield"} =>
                    \E j \in 1..(i - 1) : events[j].ev = "assistant" /\ events[j].n = 1

\* the model wrote two blocks and a tool Message was yielded for each
C27_Witness ==
    /\ pc = "done"
    /\ model_calls = 1
    /\ Len(yielded) = 3
    /\ yielded[1].content = Text(blocks)
    /\ yielded[3].role = "tool"

(***************************************************************************)
(* C28.  The error Message "I encountered an error: ..." is yielded only   *)
(* before the tool phase: a turn that has yielded the assistant Message of *)
(* the model or a tool Message never yields it, and a turn that has ended  *)
(* has yielded exactly one assistant Message.                              *)
(***************************************************************************)
C28_ErrorBeforeToolPhase ==
    LET AssistantMessages == SelectSeq(yielded, LAMBDA msg : msg.role = "assistant")
    IN  /\ Len(AssistantMessages) <= 1
        /\ pc = "done" => Len(AssistantMessages) = 1
        /\ (ContextFailed \/ ModelFailed) =>
              /\ Len(yielded) = 1
              /\ ~ModelAnswered
              /\ tool_calls = << >>
        /\ ModelAnswered =>
              /\ AssistantMessages = <<yielded[1]>>
              /\ yielded[1].content = Text(blocks)

\* a turn has ended whose tool phase met a lookup that raised and an execute
\* that raised
C28_Witness ==
    /\ pc = "done"
    /\ \E k \in 1..Len(tool_calls) : Returned(k, "raise")
    /\ \E k \in 1..Len(tool_calls) :
          Answered(k) /\ MessageOf(k).content = ExecutionFailedContent(UnhashableText)

(***************************************************************************)
(* C29.  When context building fails the turn yields exactly one Message,  *)
(* the assistant error Message, calls generate not at all, executes no     *)
(* tool, and ends without raising to its caller.                           *)
(***************************************************************************)
C29_ContextFailure ==
    ContextFailed
        => /\ pc = "done"
           /\ yielded = <<ErrorMessage(ContextErrorText)>>
           /\ yielded[1].role = "assistant"
           /\ model_calls = 0
           /\ \A i \in DOMAIN events : events[i].ev \notin {"assistant", "start", "callback"}

\* context building failed in a turn that was given an approval callback,
\* with tools registered
C29_Witness == ContextFailed /\ can_use_tool.present /\ Len(all_tools) = MaxRegs

(***************************************************************************)
(* C30.  Descriptor building covers every tool of the tool set of the turn *)
(* and never blocks the turn: once the turn is past context building the   *)
(* model call has been issued with exactly one descriptor for every tool,  *)
(* in order, whose description is the detailed prompt when that call       *)
(* succeeds, else the description of the declared schema when that call    *)
(* succeeds (and the schema has one), else the placeholder "Tool: <name>", *)
(* taken with the name of the tool or of its class.                        *)
(***************************************************************************)
C30_Descriptors ==
    (pc # "startup" /\ ~ContextFailed) =>
        /\ model_calls = 1
        /\ Len(tool_schemas) = Len(tool_use_context.tools)
        /\ \A i \in DOMAIN tool_schemas :
              LET tool == tool_use_context.tools[i]
                  description == tool_schemas[i].function.description
              IN  /\ tool_schemas[i].function.name = tool.name
                  /\ tool.prompt \in {"returns", "no_context"} =>
                        description = "prompt of " \o tool.name
                  /\ (/\ tool.prompt \in {"missing", "raises"}
                      /\ tool.schema \in {"returns", "returns_dict"}) =>
                        description = "description of " \o tool.name
                  /\ (/\ tool.prompt \in {"missing", "raises"}
                      /\ tool.schema \in {"missing", "raises"}) =>
                        description \in {"Tool: " \o tool.name,
                                         "Tool: " \o tool.class_name}

(***************************************************************************)
(* C31.  Duplicate calls are preserved, as claimed: a response of two      *)
(* Action blocks with the same name and the same parameters gives two tool *)
(* calls with different ids; every event of the first comes before every   *)
(* event of the second, execute is entered once for each call the gates    *)
(* let through, and each call gets a tool Message of its own.              *)
(***************************************************************************)
C31_DuplicatesPreserved ==
    \A b \in Segments :
        (ModelAnswered /\ ValidBlock(b) /\ b.name.type = "str" /\ blocks = <<b, b>>)
            => LET calls == yielded[1].tool_calls.calls
               IN  /\ Len(calls) = 2
                   /\ calls[1].id # calls[2].id
                   /\ \A k \in 1..2 : calls[k].name = b.name
                   /\ \A i, j \in DOMAIN events :
                         events[i].call = 1 /\ events[j].call = 2 => i < j
                   /\ \A k \in 1..2 :
                         /\ Cardinality(EventsOf("start", k)) <= 1
                         /\ (/\ Answered(k)
                             /\ \E o \in Outcomes : Returned(k, o))
                                => Cardinality(EventsOf("start", k)) = 1
                   /\ pc = "done" =>
                         /\ Len(ToolMessages) = 2
                         /\ \A k \in 1..2 :
                               ToolMessages[k].tool_call_id = calls[k].id

(***************************************************************************)
(* C32.  A malformed Action block is skipped on its own, as claimed: when  *)
(* the response holds a block that is not JSON, the turn still yields the  *)
(* assistant Message, its tool calls are the valid blocks of the response, *)
(* in order, and the turn yields one tool Message for each of them and     *)
(* none for the malformed block.                                           *)
(***************************************************************************)
C32_MalformedSkipped ==
    (ModelAnswered /\ \E i \in DOMAIN blocks :
                          blocks[i].shape \in {"trailing", "unclosed"})
        => LET calls == yielded[1].tool_calls.calls
           IN  /\ yielded[1].role = "assistant"
               /\ Len(calls) = Len(ValidBlocks)
               /\ \A k \in DOMAIN calls : calls[k].name = ValidBlocks[k].name
               /\ pc = "done" => Len(ToolMessages) = Len(ValidBlocks)

(***************************************************************************)
(* C33.  As claimed: an Action object that json.loads has parsed becomes  *)
(* a tool call if and only if it has a name key whose value is a string;   *)
(* the arguments of the call are the value of parameters, or the empty     *)
(* mapping when there is none; an object that does not become a tool call  *)
(* gets no tool Message.                                                   *)
(***************************************************************************)
C33_NameIsString ==
    ModelAnswered =>
        LET action_matches == ActionPattern(Text(blocks))
            calls == yielded[1].tool_calls.calls
        IN  \A i \in DOMAIN action_matches :
                LET r == JsonLoads(JsonPart(action_matches[i]))
                    made == {k \in DOMAIN calls : calls[k].id = CallId(i - 1)}
                IN  r.ok =>
                      /\ made # {} <=>
                            /\ "name" \in DOMAIN r.val
                            /\ r.val["name"].type = "str"
                      /\ \A k \in made :
                            calls[k].arguments =
                                IF "parameters" \in DOMAIN r.val
                                THEN r.val["parameters"]
                                ELSE JObj(EmptyMap)
                      /\ made = {} =>
                            \A m \in DOMAIN yielded :
                                yielded[m].tool_call_id # CallId(i - 1)

(***************************************************************************)
(* C34.  A turn holds no cross-turn state and does not touch what the      *)
(* caller owns: no step changes the message sequence of the caller, no     *)
(* step of a turn changes the tools or the tags of the registry, the       *)
(* model is handed the same messages by every turn, and two turns with     *)
(* the same response, callback, context, callback answers and execute      *)
(* outcomes yield the same Messages.                                       *)
(***************************************************************************)
C34_NoCrossTurnState ==
    /\ [][/\ messages' = messages
          /\ turns' # turns => registry_vars' = registry_vars]_vars
    /\ [](\A t, u \in TurnIds :
            /\ turns[t].pc # "startup" =>
                  turns[t].api_messages = NormalizeMessagesForApi(messages)
            /\ (/\ turns[t].pc = "done" /\ turns[u].pc = "done"
                /\ turns[t].blocks = turns[u].blocks
                /\ turns[t].can_use_tool = turns[u].can_use_tool
                /\ turns[t].tool_use_context = turns[u].tool_use_context
                /\ turns[t].log = turns[u].log)
                    => turns[t].yielded = turns[u].yielded)

\* two turns on a conversation of three Messages have run to their end on
\* the same inputs, one after the other, and each executed a tool
C34_Witness ==
    /\ Len(messages) = 3
    /\ \A t \in TurnIds :
          /\ turns[t].pc = "done"
          /\ Len(turns[t].api_messages) = 3
          /\ Len(turns[t].yielded) = 2
          /\ turns[t].log = <<[answer |-> TRUE, outcome |-> "success"]>>
    /\ turns[1].blocks = turns[2].blocks
    /\ turns[1].can_use_tool = turns[2].can_use_tool
    /\ turns[1].tool_use_context = turns[2].tool_use_context
    /\ all_tools # << >>

(***************************************************************************)
(* C35.  Every tool Message of a turn is correlated with its tool call:    *)
(* the Message that answers the k-th call has role tool, the id of that    *)
(* call as tool_call_id and the name of that call as name, whatever the    *)
(* call came to, and every Message with role tool answers one call.        *)
(***************************************************************************)
C35_Correlated ==
    /\ \A k \in 1..Len(tool_calls) :
          Answered(k) =>
              /\ MessageOf(k).role = "tool"
              /\ MessageOf(k).tool_call_id = tool_calls[k].id
              /\ MessageOf(k).name = tool_calls[k].name
    /\ \A m \in DOMAIN yielded :
          yielded[m].role = "tool" =>
              \E k \in 1..Len(tool_calls) :
                  /\ Answered(k)
                  /\ yielded[m] = MessageOf(k)
                  /\ \A i \in EventsOf("yield", k) : events[i].n = m

\* a turn of two calls: the first is denied by the callback, the lookup of
\* the second raises inside the loop body
C35_Witness ==
    /\ pc = "done"
    /\ Len(tool_calls) = 2
    /\ MessageOf(1).content = PermissionDeniedContent(tool_calls[1].name)
    /\ MessageOf(1).tool_call_id = CallId(0)
    /\ MessageOf(2).content = ExecutionFailedContent(UnhashableText)
    /\ MessageOf(2).tool_call_id = CallId(1)

C37_UndoPerInstance ==
    [][(editor'.last.command = "undo_edit") =>
          \A i \in InstanceIds :
              i = editor'.last.instance_id =>
                  /\ \A j \in InstanceIds \ {i} : History(j)' = History(j)
                  /\ i \notin editor.edited =>
                        /\ ~editor'.last.success
                        /\ editor'.file = editor.file]_vars

(***************************************************************************)
(* C38.  As claimed: insert places the text after line insert_line.  For a *)
(* file of n lines and 0 <= k <= n the call succeeds and the lines of the  *)
(* file are then old[1..k], the new text, old[k+1..n]; for k < 0 or k > n  *)
(* the call returns success=false and leaves the file and the undo history *)
(* as they are.  Lines are compared without their line ends.               *)
(***************************************************************************)
C38_InsertLine ==
    [][(editor'.last.command = "insert" /\ editor.file.exists) =>
          LET Lines(text) ==
                  [j \in 1..Cardinality(LineEnds(text)) |->
                      LET raw == SubSeq(text, InsertPoint(text, j - 1) + 1,
                                        InsertPoint(text, j))
                      IN  IF raw[Len(raw)] = "LF" THEN SubSeq(raw, 1, Len(raw) - 1)
                          ELSE raw]
              old == Lines(TextRead(editor.file.data))
              n == Len(old)
              k == editor'.last.args.insert_line
          IN  /\ (0 <= k /\ k <= n) =>
                    /\ editor'.last.success
                    /\ Lines(TextRead(editor'.file.data)) =
                          SubSeq(old, 1, k) \o Lines(editor'.last.args.new_str)
                              \o SubSeq(old, k + 1, n)
              /\ (k < 0 \/ k > n) =>
                    /\ ~editor'.last.success
                    /\ editor'.file = editor.file
                    /\ \A i \in InstanceIds : History(i)' = History(i)]_vars

(***************************************************************************)
(* C39: after any sequence of set_tool_permission calls,                   *)
(* get_tool_permissions() reports a tool as allowed exactly when the most  *)
(* recent set_tool_permission call for that tool had allowed = true or,    *)
(* for a tool never set, when the default table allows it; in particular   *)
(* set_tool_permission(name, false) makes name not allowed.                *)
(***************************************************************************)
C39_PermissionsFollowSet ==
    \A name \in (DOMAIN DefaultPermissions) \cup (DOMAIN project_config.requested)
                    \cup (DOMAIN GetToolPermissions) :
        (name \in DOMAIN GetToolPermissions /\ GetToolPermissions[name])
            <=> IF name \in DOMAIN project_config.requested
                THEN project_config.requested[name]
                ELSE name \in DOMAIN DefaultPermissions /\ DefaultPermissions[name]

====
